---- MODULE Spec2Model ----
(***************************************************************************)
(* A model of the jstodolist API: the auth controller (register, login,    *)
(* refreshToken, logout, getMe), the protect middleware, the task          *)
(* controller and the error handler, over a user store and a task store.   *)
(*                                                                         *)
(* Spec      requests are served one after the other (one action is one    *)
(*           whole handler, middleware and error handler included).        *)
(* SpecTasks registered users create, read, update and delete tasks.       *)
(* SpecConc  refreshToken requests run as interleaved steps, split at the  *)
(*           awaited store calls.                                          *)
(***************************************************************************)
EXTENDS Integers, FiniteSets, Sequences, TLC

\* ------------------------------------------------------------------ bounds

\* Refresh tokens that crypto.randomBytes hands out in one run.
MaxTokens == 3
\* Tasks created in one run (task ids are never reused).
MaxTasks == 2

\* ------------------------------------------------------------- input sets

\* Sample emails: two that pass Joi's email() and the schema's pattern, one
\* that passes Joi only (its last label is longer than the pattern's {2,4}),
\* and one that fails Joi.
Emails == {"ann@x.com", "bob@x.com", "eve@x.technology", "not-an-email"}
\* Sample passwords; "short" is below the minimum of 6 characters.
Passwords == {"secret1", "hunter22", "short"}
\* Sample names; " " is trimmed to nothing by the schema, "" fails Joi.
Names == {"Ann", "Bob", " ", ""}
\* bcrypt.genSalt draws a salt.
Salts == {"saltA"}

\* Sample register bodies: two that pass every validation, and one for each
\* way a body can fail Joi or the schema.
RegisterBodies ==
    {[name |-> "Ann", email |-> "ann@x.com", password |-> "secret1"],
     [name |-> "Bob", email |-> "bob@x.com", password |-> "hunter22"],
     [name |-> "", email |-> "ann@x.com", password |-> "secret1"],
     [name |-> " ", email |-> "ann@x.com", password |-> "secret1"],
     [name |-> "Ann", email |-> "not-an-email", password |-> "secret1"],
     [name |-> "Ann", email |-> "eve@x.technology", password |-> "secret1"],
     [name |-> "Bob", email |-> "bob@x.com", password |-> "short"]}

\* Sample login bodies: every sample email but the Joi-only one, with every
\* sample password.
LoginBodies ==
    [email : {"ann@x.com", "bob@x.com", "not-an-email"}, password : Passwords]

\* Sample task bodies.  title "" and completed "absent" stand for a key the
\* body does not have; extra says the body has a key the Joi schema does
\* not list, which Joi rejects: the key user, with the value under user.
CreateBodies ==
    {[title |-> "Buy milk", completed |-> "absent", extra |-> FALSE,
      user |-> 0],
     [title |-> "", completed |-> "false", extra |-> FALSE, user |-> 0],
     [title |-> "Buy milk", completed |-> "absent", extra |-> TRUE,
      user |-> 2]}

UpdateBodies ==
    {[title |-> "Walk dog", completed |-> "true", extra |-> FALSE,
      user |-> 0],
     [title |-> "", completed |-> "absent", extra |-> FALSE, user |-> 0],
     [title |-> "Walk dog", completed |-> "absent", extra |-> TRUE,
      user |-> 2]}

\* Sample page and limit parameters of a getTasks query string; "absent"
\* stands for a parameter the query does not have.
RawPagings ==
    {[page |-> "absent", limit |-> "absent"], [page |-> "2", limit |-> "1"],
     [page |-> "0", limit |-> "1"], [page |-> "1", limit |-> "0"]}

\* parseInt(text, 10) on the sample digit strings.
ParseInt(text) ==
    CASE text = "0" -> 0 [] text = "1" -> 1 [] text = "2" -> 2
      [] text = "10" -> 10

\* getTasks: page = 1 and limit = 10 when the query has none, then parseInt.
ParsePaging(raw) ==
    [page |-> IF raw.page = "absent" THEN 1 ELSE ParseInt(raw.page),
     limit |-> IF raw.limit = "absent" THEN 10 ELSE ParseInt(raw.limit)]

\* Sample getTasks query strings.  "absent" stands for a key the query
\* does not have; page and limit are what getTasks parses them to.
Pagings == {ParsePaging(raw) : raw \in RawPagings}

ListQueries ==
    {q \in [completed : {"absent", "true", "false"},
            priority : {"absent", "medium"},
            sort : {"absent", "title"},
            sortDir : {"asc", "desc"},
            paging : Pagings] :
        q.sort = "absent" => q.sortDir = "asc"}

NoUser == 0
NoToken == 0
NoTask == 0

\* ------------------------------------------------------------ validation

\* Joi.string().required().email()
JoiEmailOk(email) == email \in {"ann@x.com", "bob@x.com", "eve@x.technology"}

\* Joi.string().required().max(50): an empty string is not allowed.
JoiNameOk(name) == name \in {"Ann", "Bob", " "}

\* Joi.string().required().min(6)
JoiRegisterPasswordOk(password) == password \in {"secret1", "hunter22"}

\* Joi.string().required(): any non-empty string.
JoiLoginPasswordOk(password) == password \in {"secret1", "hunter22", "short"}

\* UserSchema.email.match: /^([\w-\.]+@([\w-]+\.)+[\w-]{2,4})?$/
SchemaEmailOk(email) == email \in {"ann@x.com", "bob@x.com"}

\* UserSchema.name: trim, then required and maxlength 50.
SchemaNameOk(name) == name \in {"Ann", "Bob"}

\* UserSchema.password: required, minlength 6.
SchemaPasswordOk(password) == password \in {"secret1", "hunter22"}

\* ---------------------------------------------------------------- hashing

\* crypto.createHash('sha256').update(t).digest('hex'): deterministic and
\* injective on the tokens of a run; a digest is never a token (tokens are
\* the positive numbers, digests the negative ones, 0 is null).
Sha256(t) == 0 - t

\* bcrypt.hash(password, salt)
BcryptHash(password, salt) == [salt |-> salt, digest |-> password]

\* bcrypt.compare(entered, stored): rehash with the stored salt and compare.
MatchPassword(entered, stored) == BcryptHash(entered, stored.salt) = stored

\* ----------------------------------------------------------- credentials

\* An access token is a JWT signed over {id}; the other values a request
\* can carry in its place are the cookie value logout sets, and garbage.
Jwt(uid) == [kind |-> "jwt", id |-> uid]
NoneCookie == [kind |-> "none", id |-> NoUser]
Garbage == [kind |-> "garbage", id |-> NoUser]
Absent == [kind |-> "absent", id |-> NoUser]

\* A JWT signed over {id} whose exp has passed.
ExpiredJwt(uid) == [kind |-> "expired", id |-> uid]

\* jwt.verify(token, JWT_SECRET): TRUE when it returns, FALSE when it throws.
JwtVerifies(token) == token.kind = "jwt"

\* The error jwt.verify throws ("" when it returns); protect logs its
\* message.
JwtVerifyError(token) ==
    IF token.kind = "jwt" THEN ""
    ELSE IF token.kind = "expired" THEN "TokenExpiredError"
    ELSE "JsonWebTokenError"

\* ----------------------------------------------------------------- errors

\* new ErrorResponse(message, statusCode, errorCode = null), raised at the
\* source line `at`: err.stack names that line.  "" stands for null.
ErrorResponse(message, statusCode, at) ==
    [name |-> "Error", message |-> message, statusCode |-> statusCode,
     errorCode |-> "", code |-> 0, stack |-> at]

\* A Mongoose ValidationError thrown by User.create: no statusCode of its own.
ValidationError(message, at) ==
    [name |-> "ValidationError", message |-> message, statusCode |-> 0,
     errorCode |-> "", code |-> 0, stack |-> at]

\* No error: what errorHandler has been given before any is raised.
Unraised ==
    [name |-> "none", message |-> "", statusCode |-> 0, errorCode |-> "",
     code |-> 0, stack |-> ""]

\* The messages raised errors carry.
ErrorMessages == {"Invalid credentials", "connect ECONNREFUSED", "E11000"}

\* The errors next(err) can hand to errorHandler: ErrorResponse objects
\* with a status and with or without an error code, errors thrown by
\* Mongoose, the driver and jsonwebtoken (no statusCode, no errorCode), and
\* the driver's duplicate key error (code 11000).
RaisedErrors ==
    {[ErrorResponse(m, st, "stack") EXCEPT !.errorCode = ec] :
        m \in ErrorMessages, st \in {400, 401, 403, 404, 500, 503},
        ec \in {"", "RATE_LIMITED"}}
    \cup {[name |-> n, message |-> m, statusCode |-> 0, errorCode |-> "",
           code |-> 0, stack |-> "stack"] :
             n \in {"Error", "TypeError", "MongoServerError", "CastError",
                    "ValidationError", "JsonWebTokenError",
                    "TokenExpiredError"},
             m \in ErrorMessages}
    \cup {[name |-> "MongoServerError", message |-> m, statusCode |-> 0,
           errorCode |-> "", code |-> 11000, stack |-> "stack"] :
             m \in ErrorMessages}

\* errorHandler, its log entry: the level is chosen from the statusCode of
\* the error as raised, before the classification; only logger.error is
\* given the stack, both are given the request path.
LogEntry(err) ==
    IF err.statusCode >= 500
    THEN [level |-> "error", stack |-> TRUE, path |-> TRUE]
    ELSE [level |-> "warn", stack |-> FALSE, path |-> TRUE]

\* The classification of the earlier task controllers: a CastError is a
\* bad request, 'Invalid task ID'; every other error is left as raised.
ClassifyCastInvalid(err) ==
    IF err.name = "CastError"
    THEN [message |-> "Invalid task ID", statusCode |-> 400, errorCode |-> ""]
    ELSE [message |-> err.message, statusCode |-> err.statusCode,
          errorCode |-> err.errorCode]

\* errorHandler, its classification: the error the response is built from.
Classify(err) ==
    LET e0 == [message |-> err.message, statusCode |-> err.statusCode,
               errorCode |-> err.errorCode]
        e1 == IF err.name = "CastError"
              THEN [message |-> "Resource not found", statusCode |-> 404,
                    errorCode |-> "RESOURCE_NOT_FOUND"]
              ELSE e0
        e2 == IF err.code = 11000
              THEN [message |-> "Duplicate field value entered",
                    statusCode |-> 400, errorCode |-> "DUPLICATE_VALUE"]
              ELSE e1
        e3 == IF err.name = "ValidationError"
              THEN [message |-> err.message, statusCode |-> 400,
                    errorCode |-> "VALIDATION_ERROR"]
              ELSE e2
        e4 == IF err.name = "JsonWebTokenError"
              THEN [message |-> "Invalid token", statusCode |-> 401,
                    errorCode |-> "INVALID_TOKEN"]
              ELSE e3
    IN  IF err.name = "TokenExpiredError"
        THEN [message |-> "Token expired", statusCode |-> 401,
              errorCode |-> "TOKEN_EXPIRED"]
        ELSE e4

\* errorHandler: the status and body sent for a raised error.  prod is
\* NODE_ENV === 'production'; outside production the body carries err.stack.
ErrorHandler(err, prod) ==
    LET error == Classify(err)
        responseMessage == IF error.statusCode >= 500 /\ prod
                           THEN "Server Error" ELSE error.message
    IN  [status |-> IF error.statusCode = 0 THEN 500 ELSE error.statusCode,
         body |-> [success |-> FALSE,
                   error |-> [message |-> responseMessage,
                              code |-> IF error.errorCode = ""
                                       THEN "SERVER_ERROR"
                                       ELSE error.errorCode,
                              trace |-> IF prod THEN "" ELSE err.stack]]]

\* ------------------------------------------------------------- user store

\* User.findOne({ email })
FindByEmail(us, email) ==
    IF \E id \in DOMAIN us : us[id].email = email
    THEN CHOOSE id \in DOMAIN us : us[id].email = email
    ELSE NoUser

\* A lookup that takes any user with a session, whatever the hash.
FindAnySession(us, hashed, sq) ==
    IF sq /\ \E id \in DOMAIN us : us[id].refreshToken /= NoToken
    THEN CHOOSE id \in DOMAIN us : us[id].refreshToken /= NoToken
    ELSE NoUser

\* User.findOne({ refreshToken: hashed, refreshTokenExpire: { $gt: now } }).
\* UserSchema has no refreshTokenExpire path and nothing ever stores one.
\* With strictQuery on (sq) Mongoose drops the unknown path from the filter
\* and the hash alone decides; with strictQuery off the filter reaches the
\* store, where no document has the field, and nothing matches.
FindByRefreshToken(us, hashed, sq) ==
    IF sq /\ \E id \in DOMAIN us : us[id].refreshToken = hashed
    THEN CHOOSE id \in DOMAIN us : us[id].refreshToken = hashed
    ELSE NoUser

\* An update that saves the whole document, so that the pre('save') hook
\* hashes the stored hash again.
UpdateAndRehash(us, id, value) ==
    IF id \in DOMAIN us
    THEN [us EXCEPT ![id].refreshToken = value,
                    ![id].password =
                        BcryptHash("$2a$10$", us[id].password.salt)]
    ELSE us

\* User.findByIdAndUpdate(id, { refreshToken: value }): no document, no change.
\* (logout's refreshTokenExpire: null names no schema path and is dropped.)
UpdateRefreshToken(us, id, value) ==
    IF id \in DOMAIN us THEN [us EXCEPT ![id].refreshToken = value] ELSE us

\* User.create({ name, email, password }) with the pre('save') hook: the
\* password is stored as its bcrypt hash.  createdAt defaults to the time
\* of creation, which follows the order of creation.
CreateUser(us, name, email, password, salt) ==
    LET id == Cardinality(DOMAIN us) + 1
    IN  [i \in DOMAIN us \cup {id} |->
            IF i = id
            THEN [name |-> name, email |-> email,
                  password |-> BcryptHash(password, salt),
                  refreshToken |-> NoToken, createdAt |-> id]
            ELSE us[i]]

\* A collection without the unique index: no insert is refused.
NoUniqueIndex(us, email) == FALSE

\* The insert of User.create meets the unique index UserSchema declares on
\* email: a document with this email is already in the collection.
DuplicateKey(us, email) == FindByEmail(us, email) /= NoUser

\* The driver's error for an insert the unique index refuses.
DuplicateKeyError(at) ==
    [name |-> "MongoServerError", message |-> "E11000 duplicate key error",
     statusCode |-> 0, errorCode |-> "", code |-> 11000, stack |-> at]

\* UserSchema's validators, run by User.create.
SchemaError(name, email, password) ==
    IF ~SchemaNameOk(name) THEN "Please add a name"
    ELSE IF ~SchemaEmailOk(email) THEN "Please add a valid email"
    ELSE IF ~SchemaPasswordOk(password)
         THEN "Password must be at least 6 characters"
    ELSE ""

\* ------------------------------------------------------------------ protect

NoAuth == [scheme |-> "absent", token |-> Absent]

\* The other version of protect's extraction: the Authorization header
\* first, the token cookie otherwise.
ExtractHeaderFirst(cookie, auth) ==
    IF auth.scheme /= "absent" THEN auth.token
    ELSE IF cookie /= Absent THEN cookie
    ELSE Absent

\* The token protect takes from a request: the token cookie first, the
\* Authorization header ('Bearer <token>' or the raw value) otherwise.
ExtractToken(cookie, auth) ==
    IF cookie /= Absent THEN cookie
    ELSE IF auth.scheme /= "absent" THEN auth.token
    ELSE Absent

\* A protect that passes jwt.verify's own error to next.
ProtectPassesJwtError(us, cookie, auth) ==
    LET token == ExtractToken(cookie, auth)
    IN  IF token = Absent
        THEN [ok |-> FALSE, user |-> NoUser,
              err |-> ErrorResponse("Not authorized to access this route",
                                    401, "middleware/auth.js:26")]
        ELSE IF ~JwtVerifies(token)
        THEN [ok |-> FALSE, user |-> NoUser,
              err |-> [name |-> JwtVerifyError(token),
                       message |-> JwtVerifyError(token), statusCode |-> 0,
                       errorCode |-> "", code |-> 0,
                       stack |-> "middleware/auth.js:31"]]
        ELSE IF token.id \notin DOMAIN us
        THEN [ok |-> FALSE, user |-> NoUser,
              err |-> ErrorResponse("User not found", 401,
                                    "middleware/auth.js:37")]
        ELSE [ok |-> TRUE, user |-> token.id,
              err |-> ErrorResponse("", 0, "")]

\* A protect that attaches the token's id without loading the user.
ProtectSkipsLookup(us, cookie, auth) ==
    LET token == ExtractToken(cookie, auth)
    IN  IF token = Absent
        THEN [ok |-> FALSE, user |-> NoUser,
              err |-> ErrorResponse("Not authorized to access this route",
                                    401, "middleware/auth.js:26")]
        ELSE IF ~JwtVerifies(token)
        THEN [ok |-> FALSE, user |-> NoUser,
              err |-> ErrorResponse("Not authorized to access this route",
                                    401, "middleware/auth.js:44")]
        ELSE [ok |-> TRUE, user |-> token.id,
              err |-> ErrorResponse("", 0, "")]

\* A protect that also wants a stored refresh hash.
ProtectChecksSession(us, cookie, auth) ==
    LET token == ExtractToken(cookie, auth)
    IN  IF token = Absent
        THEN [ok |-> FALSE, user |-> NoUser,
              err |-> ErrorResponse("Not authorized to access this route",
                                    401, "middleware/auth.js:26")]
        ELSE IF ~JwtVerifies(token)
        THEN [ok |-> FALSE, user |-> NoUser,
              err |-> ErrorResponse("Not authorized to access this route",
                                    401, "middleware/auth.js:44")]
        ELSE IF token.id \notin DOMAIN us
                \/ us[token.id].refreshToken = NoToken
        THEN [ok |-> FALSE, user |-> NoUser,
              err |-> ErrorResponse("User not found", 401,
                                    "middleware/auth.js:37")]
        ELSE [ok |-> TRUE, user |-> token.id,
              err |-> ErrorResponse("", 0, "")]

\* protect: the user attached to the request, or the error passed to next.
Protect(us, cookie, auth) ==
    LET token == ExtractToken(cookie, auth)
    IN  IF token = Absent
        THEN [ok |-> FALSE, user |-> NoUser,
              err |-> ErrorResponse("Not authorized to access this route",
                                    401, "middleware/auth.js:26")]
        ELSE IF ~JwtVerifies(token)
        THEN [ok |-> FALSE, user |-> NoUser,
              err |-> ErrorResponse("Not authorized to access this route",
                                    401, "middleware/auth.js:44")]
        ELSE IF token.id \notin DOMAIN us
        THEN [ok |-> FALSE, user |-> NoUser,
              err |-> ErrorResponse("User not found", 401,
                                    "middleware/auth.js:37")]
        ELSE [ok |-> TRUE, user |-> token.id,
              err |-> ErrorResponse("", 0, "")]

\* The route handlers protect's next() calls: each is an async function,
\* which resolves or rejects the promise it returns.
Handlers == [async : {TRUE}, throws : BOOLEAN]

\* User.findById in protect: the query is answered, or the driver rejects.
Lookups == {"answered", "rejected"}

\* A next() that lets what the handler throws reach its caller.
NextRethrows(handler) == handler.throws

\* next() throws into protect's try block: only what a handler throws
\* before returning does; an async handler returns its promise, which
\* protect does not await.
NextThrows(handler) == ~handler.async /\ handler.throws

\* The argument of a next() call without an error.
NoError == ErrorResponse("", 0, "")

\* One run of protect, statement by statement: the next calls it makes, in
\* order, and req.user at its end.
ProtectRun(us, cookie, auth, lookup, handler) ==
    LET token == ExtractToken(cookie, auth)
        caught == ErrorResponse("Not authorized to access this route", 401,
                                "middleware/auth.js:44")
    IN  IF token = Absent
        THEN [calls |-> <<ErrorResponse("Not authorized to access this route",
                                        401, "middleware/auth.js:26")>>,
              user |-> NoUser]
        ELSE IF ~JwtVerifies(token) \/ lookup = "rejected"
        THEN [calls |-> <<caught>>, user |-> NoUser]
        ELSE IF token.id \notin DOMAIN us
        THEN [calls |-> <<ErrorResponse("User not found", 401,
                                        "middleware/auth.js:37")>>,
              user |-> NoUser]
        ELSE IF NextThrows(handler)
        THEN [calls |-> <<NoError, caught>>, user |-> token.id]
        ELSE [calls |-> <<NoError>>, user |-> token.id]

\* ------------------------------------------------------------ auth handlers

\* A handler's outcome: the user store after it, the response (status and
\* body), the token cookie the response sets (Absent: none) and whether it
\* consumed the random refresh token rt.
Failure(us, err, prod) ==
    LET sent == ErrorHandler(err, prod)
    IN  [users |-> us, status |-> sent.status, body |-> sent.body,
         setCookie |-> Absent, rtUsed |-> FALSE]

\* The earlier sendTokenResponse, which stored the refresh token itself.
SendTokenResponsePlain(us, uid, statusCode, rt) ==
    [users |-> UpdateRefreshToken(us, uid, rt),
     status |-> statusCode,
     body |-> [success |-> TRUE, token |-> Jwt(uid), refreshToken |-> rt,
               user |-> [id |-> uid, name |-> us[uid].name,
                         email |-> us[uid].email]],
     setCookie |-> Jwt(uid),
     rtUsed |-> TRUE]

\* sendTokenResponse(user, statusCode, res): getSignedJwtToken,
\* getSignedRefreshToken (rt is the random token, its SHA-256 goes on the
\* record), findByIdAndUpdate, the cookies and the JSON body.
SendTokenResponse(us, uid, statusCode, rt) ==
    [users |-> UpdateRefreshToken(us, uid, Sha256(rt)),
     status |-> statusCode,
     body |-> [success |-> TRUE, token |-> Jwt(uid), refreshToken |-> rt,
               user |-> [id |-> uid, name |-> us[uid].name,
                         email |-> us[uid].email]],
     setCookie |-> Jwt(uid),
     rtUsed |-> TRUE]

\* A handler's outcome when User.findByIdAndUpdate rejects inside
\* sendTokenResponse: the catch there answers 500 itself, and the refresh
\* hash drawn for the response is not stored.  before is the store the
\* handler started from, out its outcome when the update succeeds.
WhenSaveFails(before, out) ==
    IF ~out.rtUsed THEN out
    ELSE [users |-> [u \in DOMAIN out.users |->
                        IF u \in DOMAIN before THEN before[u]
                        ELSE [out.users[u] EXCEPT !.refreshToken = NoToken]],
          status |-> 500,
          body |-> [success |-> FALSE,
                    message |-> "Error generating authentication tokens"],
          setCookie |-> Absent,
          rtUsed |-> FALSE]

\* Joi's first complaint about a register body ("" when it has none).
JoiRegisterError(name, email, password) ==
    IF ~JoiNameOk(name) THEN "\"name\" is not allowed to be empty"
    ELSE IF ~JoiEmailOk(email) THEN "\"email\" must be a valid email"
    ELSE IF ~JoiRegisterPasswordOk(password)
         THEN "\"password\" length must be at least 6 characters long"
    ELSE ""

\* Joi's first complaint about a login body.
JoiLoginError(email, password) ==
    IF ~JoiEmailOk(email) THEN "\"email\" must be a valid email"
    ELSE IF ~JoiLoginPasswordOk(password)
         THEN "\"password\" is not allowed to be empty"
    ELSE ""

\* exports.register
RegisterHandler(us, name, email, password, salt, rt, prod) ==
    IF JoiRegisterError(name, email, password) /= ""
    THEN Failure(us, ErrorResponse(JoiRegisterError(name, email, password),
                                   400, "controllers/auth.js:22"), prod)
    ELSE IF FindByEmail(us, email) /= NoUser
    THEN Failure(us, ErrorResponse("User already exists", 400,
                                   "controllers/auth.js:33"), prod)
    ELSE IF SchemaError(name, email, password) /= ""
    THEN Failure(us, ValidationError(SchemaError(name, email, password),
                                     "controllers/auth.js:37"), prod)
    ELSE LET created == CreateUser(us, name, email, password, salt)
         IN  SendTokenResponse(created, FindByEmail(created, email), 201, rt)

\* A login that tells an unknown email from a wrong password.
LoginTellsUnknownEmail(us, email, password, rt, prod) ==
    IF JoiLoginError(email, password) /= ""
    THEN Failure(us, ErrorResponse(JoiLoginError(email, password), 400,
                                   "controllers/auth.js:64"), prod)
    ELSE IF FindByEmail(us, email) = NoUser
    THEN Failure(us, ErrorResponse("User not found", 404,
                                   "controllers/auth.js:74"), prod)
    ELSE IF ~MatchPassword(password, us[FindByEmail(us, email)].password)
    THEN Failure(us, ErrorResponse("Invalid credentials", 401,
                                   "controllers/auth.js:80"), prod)
    ELSE SendTokenResponse(us, FindByEmail(us, email), 200, rt)

\* exports.login
LoginHandler(us, email, password, rt, prod) ==
    IF JoiLoginError(email, password) /= ""
    THEN Failure(us, ErrorResponse(JoiLoginError(email, password), 400,
                                   "controllers/auth.js:64"), prod)
    ELSE IF FindByEmail(us, email) = NoUser
    THEN Failure(us, ErrorResponse("Invalid credentials", 401,
                                   "controllers/auth.js:74"), prod)
    ELSE IF ~MatchPassword(password, us[FindByEmail(us, email)].password)
    THEN Failure(us, ErrorResponse("Invalid credentials", 401,
                                   "controllers/auth.js:80"), prod)
    ELSE SendTokenResponse(us, FindByEmail(us, email), 200, rt)

\* A refreshToken that issues the new pair for the first user of the
\* collection, whoever the presented token belongs to.
RefreshForFirstUser(us, token, rt, sq, prod) ==
    IF token = NoToken
    THEN Failure(us, ErrorResponse("No refresh token provided", 400,
                                   "controllers/auth.js:119"), prod)
    ELSE IF FindByRefreshToken(us, Sha256(token), sq) = NoUser
    THEN Failure(us, ErrorResponse("Invalid or expired refresh token", 401,
                                   "controllers/auth.js:135"), prod)
    ELSE SendTokenResponse(us, CHOOSE u \in DOMAIN us :
                                   \A v \in DOMAIN us : u <= v,
                           200, rt)

\* exports.refreshToken; token is req.body.refreshToken (NoToken: missing).
RefreshTokenHandler(us, token, rt, sq, prod) ==
    IF token = NoToken
    THEN Failure(us, ErrorResponse("No refresh token provided", 400,
                                   "controllers/auth.js:119"), prod)
    ELSE IF FindByRefreshToken(us, Sha256(token), sq) = NoUser
    THEN Failure(us, ErrorResponse("Invalid or expired refresh token", 401,
                                   "controllers/auth.js:135"), prod)
    ELSE SendTokenResponse(us, FindByRefreshToken(us, Sha256(token), sq),
                           200, rt)

EmptyData == [id |-> NoTask]

\* A logout that clears the cookies and leaves the stored hash.
LogoutKeepsHash(us, cookie, auth, prod) ==
    IF ~Protect(us, cookie, auth).ok
    THEN Failure(us, Protect(us, cookie, auth).err, prod)
    ELSE [users |-> us, status |-> 200,
          body |-> [success |-> TRUE, data |-> EmptyData],
          setCookie |-> NoneCookie, rtUsed |-> FALSE]

\* A logout that clears the refresh state of every user.
LogoutAllUsers(us, cookie, auth, prod) ==
    IF ~Protect(us, cookie, auth).ok
    THEN Failure(us, Protect(us, cookie, auth).err, prod)
    ELSE [users |-> [u \in DOMAIN us |->
                        [us[u] EXCEPT !.refreshToken = NoToken]],
          status |-> 200,
          body |-> [success |-> TRUE, data |-> EmptyData],
          setCookie |-> NoneCookie,
          rtUsed |-> FALSE]

\* exports.logout, behind protect: the refresh state is cleared and the
\* token cookie is overwritten with 'none'.
LogoutHandler(us, cookie, auth, prod) ==
    IF ~Protect(us, cookie, auth).ok
    THEN Failure(us, Protect(us, cookie, auth).err, prod)
    ELSE [users |-> UpdateRefreshToken(us, Protect(us, cookie, auth).user,
                                       NoToken),
          status |-> 200,
          body |-> [success |-> TRUE, data |-> EmptyData],
          setCookie |-> NoneCookie,
          rtUsed |-> FALSE]

\* A getMe that selects the hidden paths and returns the document whole.
GetMeWholeDocument(us, cookie, auth, prod) ==
    IF ~Protect(us, cookie, auth).ok
    THEN Failure(us, Protect(us, cookie, auth).err, prod)
    ELSE [users |-> us, status |-> 200,
          body |-> [success |-> TRUE,
                    user |-> us[Protect(us, cookie, auth).user]],
          setCookie |-> Absent, rtUsed |-> FALSE]

\* exports.getMe, behind protect.
GetMeHandler(us, cookie, auth, prod) ==
    IF ~Protect(us, cookie, auth).ok
    THEN Failure(us, Protect(us, cookie, auth).err, prod)
    ELSE LET uid == Protect(us, cookie, auth).user
         IN  [users |-> us, status |-> 200,
              body |-> [success |-> TRUE,
                        user |-> [id |-> uid, name |-> us[uid].name,
                                  email |-> us[uid].email,
                                  createdAt |-> us[uid].createdAt]],
              setCookie |-> Absent, rtUsed |-> FALSE]


\* ------------------------------------------------------------ task handlers

\* A request's :id that is no ObjectId; Task.findById throws a CastError.
MalformedId == 0 - 1

IsObjectId(id) == id >= 1

CastError(at) ==
    [name |-> "CastError", message |-> "Cast to ObjectId failed",
     statusCode |-> 0, errorCode |-> "", code |-> 0, stack |-> at]

\* Joi's verdict on a createTask body: title is required.
JoiCreateTaskOk(b) == ~b.extra /\ b.title /= ""

\* An update schema that lets unlisted keys through.
JoiUpdateAllowsUnknown(b) == TRUE

\* Joi's verdict on an updateTask body: every key is optional.
JoiUpdateTaskOk(b) == ~b.extra

\* Task.create(body): the document stored for a body.  createTask
\* overwrites the body's user with req.user.id before the call.
NewTask(b, uid) ==
    LET sanitizedBody == [b EXCEPT !.user = uid]
    IN  [user |-> sanitizedBody.user, title |-> sanitizedBody.title,
         completed |-> sanitizedBody.completed = "true"]

\* Task.findByIdAndUpdate(id, body): the keys the body has are overwritten.
UpdatedTask(task, b) ==
    [user |-> IF b.extra THEN b.user ELSE task.user,
     title |-> IF b.title = "" THEN task.title ELSE b.title,
     completed |-> IF b.completed = "absent" THEN task.completed
                   ELSE b.completed = "true"]

\* A task handler's outcome: the task store after it and the response.
TaskFailure(ts, err, prod) ==
    LET sent == ErrorHandler(err, prod)
    IN  [tasks |-> ts, status |-> sent.status, body |-> sent.body]

TaskData(ts, id) ==
    [id |-> id, user |-> ts[id].user, title |-> ts[id].title,
     completed |-> ts[id].completed]

\* The priority of a stored task.  The sample bodies carry no priority, so
\* every stored task holds what the Task model gives it.
PriorityOf(task) == "medium"

\* The sort key of a task: createdAt follows the creation order, and titles
\* compare as strings.
SortKey(ts, id, field) ==
    IF field = "title"
    THEN (IF ts[id].title = "Buy milk" THEN 1 ELSE 2)
    ELSE id

\* The orders in which Task.find(query).sort(sortObj) can return the
\* matching documents: every order that respects the sort key (documents
\* with equal keys come in any order).
SortedOrders(ts, ids, field, dir) ==
    {f \in [1 .. Cardinality(ids) -> ids] :
        /\ \A i, j \in 1 .. Cardinality(ids) : i /= j => f[i] /= f[j]
        /\ \A i, j \in 1 .. Cardinality(ids) :
              i < j => dir * SortKey(ts, f[i], field)
                          <= dir * SortKey(ts, f[j], field)}

\* A window that skips page * limit documents, one page too many.
WindowFromNextPage(seq, startIndex, limitNum) ==
    LET n == Cardinality(DOMAIN seq)
        from == startIndex + limitNum
        stop == IF limitNum = 0 \/ from + limitNum > n THEN n
                ELSE from + limitNum
    IN  [i \in 1 .. (IF stop > from THEN stop - from ELSE 0) |-> seq[from + i]]

\* Math.ceil(total / limitNum); with limitNum 0 the quotient is Infinity or
\* NaN, which JSON writes as null (0 - 1 here).
TotalPages(total, limitNum) ==
    IF limitNum = 0 THEN 0 - 1 ELSE (total + limitNum - 1) \div limitNum

\* .skip(startIndex).limit(limitNum); limit(0) sets no limit.
Window(seq, startIndex, limitNum) ==
    LET n == Cardinality(DOMAIN seq)
        stop == IF limitNum = 0 \/ startIndex + limitNum > n THEN n
                ELSE startIndex + limitNum
    IN  [i \in 1 .. (IF stop > startIndex THEN stop - startIndex ELSE 0) |->
            seq[startIndex + i]]

\* The documents the query of getTasks matches; scoped says the query has
\* user: req.user.id.
Matching(ts, uid, q, scoped) ==
    {id \in DOMAIN ts :
        /\ scoped => ts[id].user = uid
        /\ q.completed /= "absent"
              => ts[id].completed = (q.completed = "true")
        /\ q.priority /= "absent" => PriorityOf(ts[id]) = q.priority}

\* The store refusing a negative skip.
SkipError(at) ==
    [name |-> "MongoServerError", message |-> "Skip value must be non-negative",
     statusCode |-> 0, errorCode |-> "", code |-> 2, stack |-> at]

\* The responses of getTasks behind protect, one for each order the store
\* can return the documents in.
ListOutcomes(us, ts, cookie, auth, q, scoped, prod) ==
    LET who == Protect(us, cookie, auth)
        startIndex == (q.paging.page - 1) * q.paging.limit
        ids == Matching(ts, who.user, q, scoped)
        field == IF q.sort = "absent" THEN "createdAt" ELSE q.sort
        dir == IF q.sort = "absent" \/ q.sortDir = "desc" THEN 0 - 1 ELSE 1
    IN  IF ~who.ok THEN {TaskFailure(ts, who.err, prod)}
        ELSE IF startIndex < 0
        THEN {TaskFailure(ts, SkipError("controllers/tasks.js:128"), prod)}
        ELSE {LET data == Window([i \in DOMAIN f |-> TaskData(ts, f[i])],
                                 startIndex, q.paging.limit)
              IN  [tasks |-> ts, status |-> 200,
                   body |-> [success |-> TRUE,
                             pagination |->
                                 [total |-> Cardinality(ids),
                                  page |-> q.paging.page,
                                  limit |-> q.paging.limit,
                                  totalPages |->
                                      TotalPages(Cardinality(ids),
                                                 q.paging.limit)],
                             count |-> Cardinality(DOMAIN data),
                             data |-> data]] :
                 f \in SortedOrders(ts, ids, field, dir)}

\* A getTasks whose query is not scoped to the caller.
GetTasksUnscoped(us, ts, cookie, auth, q, prod) ==
    ListOutcomes(us, ts, cookie, auth, q, FALSE, prod)

\* exports.getTasks, behind protect.
GetTasksHandler(us, ts, cookie, auth, q, prod) ==
    ListOutcomes(us, ts, cookie, auth, q, TRUE, prod)

\* getTask without the ownership check.
GetAnyTask(us, ts, cookie, auth, id, prod) ==
    LET who == Protect(us, cookie, auth)
    IN  IF ~who.ok THEN TaskFailure(ts, who.err, prod)
        ELSE IF ~IsObjectId(id)
        THEN TaskFailure(ts, CastError("controllers/tasks.js:158"), prod)
        ELSE IF id \notin DOMAIN ts
        THEN TaskFailure(ts, ErrorResponse("Task not found", 404,
                                           "controllers/tasks.js:161"), prod)
        ELSE [tasks |-> ts, status |-> 200,
              body |-> [success |-> TRUE, data |-> TaskData(ts, id)]]

\* exports.getTask, behind protect.
GetTaskHandler(us, ts, cookie, auth, id, prod) ==
    LET who == Protect(us, cookie, auth)
    IN  IF ~who.ok THEN TaskFailure(ts, who.err, prod)
        ELSE IF ~IsObjectId(id)
        THEN TaskFailure(ts, CastError("controllers/tasks.js:158"), prod)
        ELSE IF id \notin DOMAIN ts
        THEN TaskFailure(ts, ErrorResponse("Task not found", 404,
                                           "controllers/tasks.js:161"), prod)
        ELSE IF ts[id].user /= who.user
        THEN TaskFailure(ts, ErrorResponse(
                                 "Not authorized to access this task", 403,
                                 "controllers/tasks.js:166"), prod)
        ELSE [tasks |-> ts, status |-> 200,
              body |-> [success |-> TRUE, data |-> TaskData(ts, id)]]

\* exports.createTask, behind protect; newId is the ObjectId assigned.
CreateTaskHandler(us, ts, cookie, auth, b, newId, prod) ==
    LET who == Protect(us, cookie, auth)
        created == [i \in DOMAIN ts \cup {newId} |->
                       IF i = newId THEN NewTask(b, who.user) ELSE ts[i]]
    IN  IF ~who.ok THEN TaskFailure(ts, who.err, prod)
        ELSE IF ~JoiCreateTaskOk(b)
        THEN TaskFailure(ts, ErrorResponse(
                                 IF b.title = "" THEN "\"title\" is required"
                                 ELSE "\"user\" is not allowed", 400,
                                 "controllers/tasks.js:195"), prod)
        ELSE [tasks |-> created, status |-> 201,
              body |-> [success |-> TRUE, data |-> TaskData(created, newId)]]

\* updateTask without the ownership check.
UpdateAnyTask(us, ts, cookie, auth, id, b, prod) ==
    LET who == Protect(us, cookie, auth)
        updated == [ts EXCEPT ![id] = UpdatedTask(ts[id], b)]
    IN  IF ~who.ok THEN TaskFailure(ts, who.err, prod)
        ELSE IF ~JoiUpdateTaskOk(b)
        THEN TaskFailure(ts, ErrorResponse("\"user\" is not allowed", 400,
                                           "controllers/tasks.js:235"), prod)
        ELSE IF ~IsObjectId(id)
        THEN TaskFailure(ts, CastError("controllers/tasks.js:248"), prod)
        ELSE IF id \notin DOMAIN ts
        THEN TaskFailure(ts, ErrorResponse("Task not found", 404,
                                           "controllers/tasks.js:251"), prod)
        ELSE [tasks |-> updated, status |-> 200,
              body |-> [success |-> TRUE, data |-> TaskData(updated, id)]]

\* exports.updateTask, behind protect.
UpdateTaskHandler(us, ts, cookie, auth, id, b, prod) ==
    LET who == Protect(us, cookie, auth)
        updated == [ts EXCEPT ![id] = UpdatedTask(ts[id], b)]
    IN  IF ~who.ok THEN TaskFailure(ts, who.err, prod)
        ELSE IF ~JoiUpdateTaskOk(b)
        THEN TaskFailure(ts, ErrorResponse("\"user\" is not allowed", 400,
                                           "controllers/tasks.js:235"), prod)
        ELSE IF ~IsObjectId(id)
        THEN TaskFailure(ts, CastError("controllers/tasks.js:248"), prod)
        ELSE IF id \notin DOMAIN ts
        THEN TaskFailure(ts, ErrorResponse("Task not found", 404,
                                           "controllers/tasks.js:251"), prod)
        ELSE IF ts[id].user /= who.user
        THEN TaskFailure(ts, ErrorResponse(
                                 "Not authorized to update this task", 403,
                                 "controllers/tasks.js:256"), prod)
        ELSE [tasks |-> updated, status |-> 200,
              body |-> [success |-> TRUE, data |-> TaskData(updated, id)]]

\* deleteTask that answers 200 for an id no task has.
DeleteMissingOk(us, ts, cookie, auth, id, prod) ==
    LET who == Protect(us, cookie, auth)
    IN  IF ~who.ok THEN TaskFailure(ts, who.err, prod)
        ELSE IF ~IsObjectId(id)
        THEN TaskFailure(ts, CastError("controllers/tasks.js:280"), prod)
        ELSE IF id \in DOMAIN ts /\ ts[id].user /= who.user
        THEN TaskFailure(ts, ErrorResponse(
                                 "Not authorized to delete this task", 403,
                                 "controllers/tasks.js:288"), prod)
        ELSE [tasks |-> [i \in DOMAIN ts \ {id} |-> ts[i]], status |-> 200,
              body |-> [success |-> TRUE, data |-> EmptyData]]

\* A soft delete: deleteTask answers 200 and keeps the document.
DeleteTaskKeeps(us, ts, cookie, auth, id, prod) ==
    LET who == Protect(us, cookie, auth)
    IN  IF ~who.ok THEN TaskFailure(ts, who.err, prod)
        ELSE IF ~IsObjectId(id)
        THEN TaskFailure(ts, CastError("controllers/tasks.js:280"), prod)
        ELSE IF id \notin DOMAIN ts
        THEN TaskFailure(ts, ErrorResponse("Task not found", 404,
                                           "controllers/tasks.js:283"), prod)
        ELSE IF ts[id].user /= who.user
        THEN TaskFailure(ts, ErrorResponse(
                                 "Not authorized to delete this task", 403,
                                 "controllers/tasks.js:288"), prod)
        ELSE [tasks |-> ts, status |-> 200,
              body |-> [success |-> TRUE, data |-> EmptyData]]

\* exports.deleteTask, behind protect.
DeleteTaskHandler(us, ts, cookie, auth, id, prod) ==
    LET who == Protect(us, cookie, auth)
    IN  IF ~who.ok THEN TaskFailure(ts, who.err, prod)
        ELSE IF ~IsObjectId(id)
        THEN TaskFailure(ts, CastError("controllers/tasks.js:280"), prod)
        ELSE IF id \notin DOMAIN ts
        THEN TaskFailure(ts, ErrorResponse("Task not found", 404,
                                           "controllers/tasks.js:283"), prod)
        ELSE IF ts[id].user /= who.user
        THEN TaskFailure(ts, ErrorResponse(
                                 "Not authorized to delete this task", 403,
                                 "controllers/tasks.js:288"), prod)
        ELSE [tasks |-> [i \in DOMAIN ts \ {id} |-> ts[i]], status |-> 200,
              body |-> [success |-> TRUE, data |-> EmptyData]]

\* -------------------------------------------------------------------- state

VARIABLES
    isProd,       \* process.env.NODE_ENV === 'production'
    strictQuery,  \* Mongoose's strictQuery option (its default differs by version)
    users,        \* the users collection: id -> document
    nextRefresh,  \* the next value crypto.randomBytes(32) returns
    jar,          \* the browser client's token cookie
    tasks,        \* the tasks collection: id -> document
    nextTaskId,   \* the next ObjectId Task.create assigns
    last,         \* history: the request served last (its route, its client, the
                  \* user protect attached, its refresh token) and the status sent
    owner,        \* history: refresh token -> the user it was returned for
    latest,       \* history: user -> the refresh token returned last (NoToken after logout)
    spent,        \* history: refresh tokens a refreshToken call has exchanged
    loggedOut,    \* history: users whose last session operation was a logout
    registry,     \* history: email -> the password it was registered with
    reqs,         \* the refreshToken requests in flight: where each stands
                  \* between its awaits, and what it holds
    aged,         \* history: refresh tokens returned longer ago than the
                  \* seven days their cookie lasts
    regs,         \* the register requests in flight: where each stands
                  \* between its awaits, and what it holds
    handled,      \* the error passed to errorHandler on its own, and the
                  \* response it sent
    cookies,      \* the cookies sendTokenResponse set on its own: the
                  \* JWT_COOKIE_EXPIRE it ran under, its Date.now(), and
                  \* the expires of the two cookies
    upds          \* the updateTask requests in flight: where each stands
                  \* between its awaits, and what it holds

vars == <<isProd, strictQuery, users, nextRefresh, jar, tasks, nextTaskId,
          last, owner, latest, spent, loggedOut, registry, reqs, aged, handled,
          regs, cookies, upds>>

\* A user can exist for each email that passes both validations.
UserIds == 1 .. Cardinality({e \in Emails : JoiEmailOk(e) /\ SchemaEmailOk(e)})

\* The id of a user whose document has been removed from the collection:
\* an id no document of the run has.
GoneUser == Cardinality(UserIds) + 1

\* The two clients: the browser keeps the cookies responses set and sends
\* them back; the API client sends an Authorization header.
Clients == {"browser", "api"}

\* The refresh tokens returned so far.
Issued == 1 .. (nextRefresh - 1)

\* A refresh token no response ever held.
BogusToken == MaxTokens + 1

\* What a request's refreshToken field can hold: nothing, a returned token,
\* or a made-up one.
PresentedTokens == {NoToken, BogusToken} \cup Issued

\* The Authorization headers the API client can send: none, a JWT some
\* response held (Bearer or raw), or garbage.
AuthHeaders ==
    {NoAuth, [scheme |-> "Bearer", token |-> Garbage]}
    \cup {[scheme |-> "Bearer", token |-> Jwt(u)] : u \in DOMAIN users}
    \cup {[scheme |-> "raw", token |-> Jwt(u)] : u \in DOMAIN users}

\* The credentials client c can put on a request: <<cookie, header>>.
Credentials(c) ==
    IF c = "browser" THEN {<<jar, NoAuth>>}
    ELSE {<<Absent, h>> : h \in AuthHeaders}

\* The credentials of a browser that sends its cookie and a header too.
MixedCredentials == {<<jar, h>> : h \in AuthHeaders}

\* Headers with a token that no longer verifies, or whose user is gone.
StaleHeaders ==
    {[scheme |-> "Bearer", token |-> Garbage],
     [scheme |-> "Bearer", token |-> Jwt(GoneUser)]}
    \cup {[scheme |-> "Bearer", token |-> ExpiredJwt(u)] : u \in DOMAIN users}

\* A request that carries neither (the public routes read none).
NoCredential == <<Absent, NoAuth>>

\* The request slots of the interleaved runs.
Slots == {"r1", "r2"}

\* A slot no request occupies yet.
IdleRequest ==
    [pc |-> "idle", token |-> NoToken, user |-> NoUser, rt |-> NoToken,
     status |-> 0]

\* An updateTask request before it arrives.  data is the id of the task
\* in the response's data, NoTask when the data is null.
IdleUpdate ==
    [pc |-> "idle", user |-> NoUser, id |-> NoTask,
     body |-> [title |-> "", completed |-> "absent", extra |-> FALSE,
               user |-> 0],
     status |-> 0, data |-> NoTask]

\* A register request before it arrives.
IdleRegister ==
    [pc |-> "idle", body |-> [name |-> "", email |-> "", password |-> ""],
     salt |-> "", status |-> 0, code |-> ""]

\* ---------------------------------------------------------- cookie expiry
\* Times are counted in days since the epoch: one unit is the
\* 24 * 60 * 60 * 1000 milliseconds the code multiplies by.

Day == 1

\* Date.now() when the server starts, and the days a run can last.
StartDay == 20000
MaxDays == 14
Clock == StartDay .. (StartDay + MaxDays)

\* process.env.JWT_COOKIE_EXPIRE: not set, or one of the sample strings.
Unset == "undefined"
CookieExpires == {Unset, "30", "7", "1", "0"}

\* A JavaScript number: an integer, or NaN.
Num(n) == [nan |-> FALSE, val |-> n]
NaN == [nan |-> TRUE, val |-> 0]

\* The number a value of CookieExpires converts to in a product.
ToNumber(text) ==
    CASE text = Unset -> NaN
      [] text = "0" -> Num(0) [] text = "1" -> Num(1) [] text = "7" -> Num(7)
      [] text = "30" -> Num(30)

\* a * b and a + b: NaN when either operand is.
Times(a, b) == IF a.nan \/ b.nan THEN NaN ELSE Num(a.val * b.val)
Plus(a, b) == IF a.nan \/ b.nan THEN NaN ELSE Num(a.val + b.val)

\* a || b on numbers: NaN and 0 are falsy.
OrElse(a, b) == IF a.nan \/ a.val = 0 THEN b ELSE a

\* cookieOptions.expires, the time value of
\*   new Date(Date.now() + process.env.JWT_COOKIE_EXPIRE * 24 * 60 * 60 * 1000
\*            || 30 * 24 * 60 * 60 * 1000)
\* where + binds tighter than ||.
TokenCookieExpires(env, now) ==
    OrElse(Plus(Num(now), Times(ToNumber(env), Num(Day))), Num(30 * Day)).val

\* The refresh-token cookie: new Date(Date.now() + 7 * 24 * 60 * 60 * 1000).
RefreshCookieExpires(now) == now + 7 * Day

\* No cookie set yet.
NoCookies ==
    [set |-> FALSE, env |-> Unset, now |-> StartDay, token |-> 0,
     refresh |-> 0, secure |-> FALSE]

\* server startup: empty collections, no request served yet.
Init ==
    /\ isProd \in BOOLEAN
    /\ strictQuery \in BOOLEAN
    /\ users = [i \in {} |-> 0]
    /\ nextRefresh = 1
    /\ jar = Absent
    /\ last = [op |-> "none", client |-> "none", cred |-> NoCredential,
               user |-> NoUser, token |-> NoToken, task |-> NoTask,
               status |-> 0]
    /\ tasks = [i \in {} |-> 0]
    /\ nextTaskId = 1
    /\ owner = [t \in {} |-> NoUser]
    /\ latest = [u \in UserIds |-> NoToken]
    /\ spent = {}
    /\ loggedOut = {}
    /\ registry = [e \in {} |-> ""]
    /\ reqs = [s \in Slots |-> IdleRequest]
    /\ aged = {}
    /\ regs = [s \in Slots |-> IdleRegister]
    /\ handled = [err |-> Unraised, status |-> 0, body |-> [success |-> TRUE],
                  log |-> [level |-> "none", stack |-> FALSE, path |-> FALSE]]
    /\ cookies = NoCookies
    /\ upds = [s \in Slots |-> IdleUpdate]

\* The common part of serving a request: the store, the counter and the
\* browser's cookie after the outcome out, and the record of the request.
Serve(op, c, cred, token, out) ==
    /\ out.rtUsed => nextRefresh <= MaxTokens
    /\ users' = out.users
    /\ nextRefresh' = IF out.rtUsed THEN nextRefresh + 1 ELSE nextRefresh
    /\ jar' = IF c = "browser" /\ out.setCookie /= Absent
              THEN out.setCookie ELSE jar
    /\ last' = [op |-> op, client |-> c, cred |-> cred,
                user |-> Protect(users, cred[1], cred[2]).user,
                token |-> token, task |-> NoTask, status |-> out.status]
    /\ UNCHANGED <<tasks, nextTaskId, reqs>>

\* History after a response that returned refresh token rt for user uid.
Returned(uid, rt) ==
    /\ owner' = [t \in DOMAIN owner \cup {rt} |->
                    IF t = rt THEN uid ELSE owner[t]]
    /\ latest' = [latest EXCEPT ![uid] = rt]
    /\ loggedOut' = loggedOut \ {uid}

\* POST /api/auth/register
Register(c, b, salt) ==
    LET out == RegisterHandler(users, b.name, b.email, b.password, salt,
                               nextRefresh, isProd)
    IN  /\ Serve("register", c, NoCredential, NoToken, out)
        /\ IF out.status = 201
           THEN /\ Returned(out.body.user.id, nextRefresh)
                /\ registry' = [e \in DOMAIN registry \cup {b.email} |->
                                   IF e = b.email THEN b.password
                                   ELSE registry[e]]
           ELSE UNCHANGED <<owner, latest, loggedOut, registry>>
        /\ UNCHANGED <<upds, cookies, regs, handled, aged, isProd, strictQuery, spent>>

\* POST /api/auth/login
Login(c, b) ==
    LET out == LoginHandler(users, b.email, b.password, nextRefresh, isProd)
    IN  /\ Serve("login", c, NoCredential, NoToken, out)
        /\ IF out.status = 200
           THEN Returned(out.body.user.id, nextRefresh)
           ELSE UNCHANGED <<owner, latest, loggedOut>>
        /\ UNCHANGED <<upds, cookies, regs, handled, aged, isProd, strictQuery, spent, registry>>

\* POST /api/auth/refresh-token
RefreshToken(c, token) ==
    LET out == RefreshTokenHandler(users, token, nextRefresh, strictQuery,
                                   isProd)
    IN  /\ Serve("refreshToken", c, NoCredential, token, out)
        /\ IF out.status = 200
           THEN /\ Returned(out.body.user.id, nextRefresh)
                /\ spent' = spent \cup {token}
           ELSE UNCHANGED <<owner, latest, loggedOut, spent>>
        /\ UNCHANGED <<upds, cookies, regs, handled, aged, isProd, strictQuery, registry>>

\* POST /api/auth/logout
Logout(c, cred) ==
    LET out == LogoutHandler(users, cred[1], cred[2], isProd)
    IN  /\ Serve("logout", c, cred, NoToken, out)
        /\ IF out.status = 200
           THEN LET uid == Protect(users, cred[1], cred[2]).user
                IN  /\ latest' = [latest EXCEPT ![uid] = NoToken]
                    /\ loggedOut' = loggedOut \cup {uid}
           ELSE UNCHANGED <<latest, loggedOut>>
        /\ UNCHANGED <<upds, cookies, regs, handled, aged, isProd, strictQuery, owner, spent, registry>>

\* GET /api/auth/me
GetMe(c, cred) ==
    LET out == GetMeHandler(users, cred[1], cred[2], isProd)
    IN  /\ Serve("getMe", c, cred, NoToken, out)
        /\ UNCHANGED <<upds, cookies, regs, handled, aged, isProd, strictQuery, owner, latest, spent, loggedOut,
                       registry>>

Next ==
    \E c \in Clients :
        \/ \E b \in RegisterBodies, salt \in Salts : Register(c, b, salt)
        \/ \E b \in LoginBodies : Login(c, b)
        \/ \E token \in PresentedTokens : RefreshToken(c, token)
        \/ \E cred \in Credentials(c) : Logout(c, cred)
        \/ \E cred \in Credentials(c) : GetMe(c, cred)

Spec == Init /\ [][Next]_vars

\* ------------------------------------------------------------------- tasks

\* The ids a task request can name: a stored task's, a deleted task's, one
\* no task has had yet, and a malformed one.
TaskIdInputs == (1 .. nextTaskId) \cup {MalformedId}

\* The common part of serving a task request.
ServeTask(op, c, cred, id, out) ==
    /\ tasks' = out.tasks
    /\ last' = [op |-> op, client |-> c, cred |-> cred,
                user |-> Protect(users, cred[1], cred[2]).user,
                token |-> NoToken, task |-> id, status |-> out.status]
    /\ UNCHANGED <<upds, cookies, regs, handled, aged, isProd, strictQuery, users, nextRefresh, jar, owner,
                   latest, spent, loggedOut, registry, reqs>>

\* GET /api/tasks
GetTasks(c, cred, q) ==
    /\ \E out \in GetTasksHandler(users, tasks, cred[1], cred[2], q, isProd) :
          ServeTask("getTasks", c, cred, NoTask, out)
    /\ UNCHANGED nextTaskId

\* GET /api/tasks/:id
GetTask(c, cred, id) ==
    /\ ServeTask("getTask", c, cred, id,
                 GetTaskHandler(users, tasks, cred[1], cred[2], id, isProd))
    /\ UNCHANGED nextTaskId

\* POST /api/tasks
CreateTask(c, cred, b) ==
    LET out == CreateTaskHandler(users, tasks, cred[1], cred[2], b,
                                 nextTaskId, isProd)
    IN  /\ out.status = 201 => nextTaskId <= MaxTasks
        /\ ServeTask("createTask", c, cred, NoTask, out)
        /\ nextTaskId' = IF out.status = 201 THEN nextTaskId + 1
                         ELSE nextTaskId

\* PUT /api/tasks/:id
UpdateTask(c, cred, id, b) ==
    /\ ServeTask("updateTask", c, cred, id,
                 UpdateTaskHandler(users, tasks, cred[1], cred[2], id, b,
                                   isProd))
    /\ UNCHANGED nextTaskId

\* DELETE /api/tasks/:id
DeleteTask(c, cred, id) ==
    /\ ServeTask("deleteTask", c, cred, id,
                 DeleteTaskHandler(users, tasks, cred[1], cred[2], id, isProd))
    /\ UNCHANGED nextTaskId

\* The credentials put on the task requests of the task runs: none, or a
\* registered user's JWT as a Bearer header.  (The claims about these runs
\* range over every credential of every client in each state reached.)
TaskCredentials ==
    {<<Absent, NoAuth>>}
    \cup {<<Absent, [scheme |-> "Bearer", token |-> Jwt(u)]>> :
             u \in DOMAIN users}

\* API clients register and work on tasks.
NextTasks ==
    \/ \E b \in RegisterBodies, salt \in Salts : Register("api", b, salt)
    \/ \E cred \in TaskCredentials, b \in CreateBodies :
          CreateTask("api", cred, b)
    \/ \E cred \in TaskCredentials, id \in TaskIdInputs :
          GetTask("api", cred, id)
    \/ \E cred \in TaskCredentials, id \in TaskIdInputs, b \in UpdateBodies :
          UpdateTask("api", cred, id, b)
    \/ \E cred \in TaskCredentials, id \in TaskIdInputs :
          DeleteTask("api", cred, id)

\* Clients register and log out, and browsers that also send an
\* Authorization header call a protected route.
NextProtect ==
    \/ \E c \in Clients, b \in RegisterBodies, salt \in Salts :
          Register(c, b, salt)
    \/ \E cred \in Credentials("browser") : Logout("browser", cred)
    \/ \E cred \in MixedCredentials : GetMe("browser", cred)
    \/ \E h \in StaleHeaders : GetMe("api", <<Absent, h>>)

SpecProtect == Init /\ [][NextProtect]_vars

\* Seven days pass since refresh token t was returned.  The server keeps
\* no time of issue and no expiry, so nothing in the store changes.
Age(t) ==
    /\ t \in Issued \ aged
    /\ aged' = aged \cup {t}
    /\ UNCHANGED <<upds, cookies, regs, handled, isProd, strictQuery, users, nextRefresh, jar, tasks,
                   nextTaskId, last, owner, latest, spent, loggedOut,
                   registry, reqs>>

\* API clients register and exchange refresh tokens while time passes.
NextAge ==
    \/ \E b \in RegisterBodies, salt \in Salts : Register("api", b, salt)
    \/ \E token \in PresentedTokens : RefreshToken("api", token)
    \/ \E t \in Issued : Age(t)

SpecAge == Init /\ [][NextAge]_vars

\* POST /api/auth/register while the store rejects the update of
\* sendTokenResponse: the user is created, no token is returned.
RegisterSaveFails(c, b, salt) ==
    LET reached == RegisterHandler(users, b.name, b.email, b.password, salt,
                                   nextRefresh, isProd)
    IN  /\ reached.rtUsed
        /\ Serve("register", c, NoCredential, NoToken,
                 WhenSaveFails(users, reached))
        /\ registry' = [e \in DOMAIN registry \cup {b.email} |->
                           IF e = b.email THEN b.password ELSE registry[e]]
        /\ UNCHANGED <<upds, cookies, regs, handled, aged, isProd, strictQuery, owner, latest, spent,
                       loggedOut>>

\* POST /api/auth/login while the store rejects the update of
\* sendTokenResponse.
LoginSaveFails(c, b) ==
    LET reached == LoginHandler(users, b.email, b.password, nextRefresh,
                                isProd)
    IN  /\ reached.rtUsed
        /\ Serve("login", c, NoCredential, NoToken,
                 WhenSaveFails(users, reached))
        /\ UNCHANGED <<upds, cookies, regs, handled, aged, isProd, strictQuery, owner, latest, spent,
                       loggedOut, registry>>

\* The api client registers, logs in and creates tasks over a store that
\* can fail.
NextFail ==
    \/ \E b \in RegisterBodies, salt \in Salts : Register("api", b, salt)
    \/ \E b \in RegisterBodies, salt \in Salts :
          RegisterSaveFails("api", b, salt)
    \/ \E b \in LoginBodies : Login("api", b)
    \/ \E b \in LoginBodies : LoginSaveFails("api", b)
    \/ \E cred \in TaskCredentials, b \in CreateBodies :
          CreateTask("api", cred, b)

SpecFail == Init /\ [][NextFail]_vars

\* next(err) with an error of RaisedErrors: errorHandler answers.
Raise(err) ==
    /\ handled' = [err |-> err,
                   status |-> ErrorHandler(err, isProd).status,
                   body |-> ErrorHandler(err, isProd).body,
                   log |-> LogEntry(err)]
    /\ UNCHANGED <<isProd, strictQuery, users, nextRefresh, jar, tasks,
                   nextTaskId, last, owner, latest, spent, loggedOut,
                   registry, reqs, aged, regs, cookies, upds>>

\* errorHandler on its own, over the errors that can be raised.
NextErrors == \E err \in RaisedErrors : Raise(err)

SpecErrors == Init /\ [][NextErrors]_vars

\* sendTokenResponse from its cookie options on, at time now of a server
\* started with JWT_COOKIE_EXPIRE = env.
SetCookies(env, now) ==
    /\ cookies' = [set |-> TRUE, env |-> env, now |-> now,
                   token |-> TokenCookieExpires(env, now),
                   refresh |-> RefreshCookieExpires(now),
                   secure |-> isProd]
    /\ UNCHANGED <<isProd, strictQuery, users, nextRefresh, jar, tasks,
                   nextTaskId, last, owner, latest, spent, loggedOut,
                   registry, reqs, aged, regs, handled, upds>>

\* The cookies of sendTokenResponse on their own, over the sample
\* configurations and times.
NextCookies == \E env \in CookieExpires, now \in Clock : SetCookies(env, now)

SpecCookies == Init /\ [][NextCookies]_vars

\* register up to its first await: the Joi validation and User.findOne.
\* A request refused here is answered at once.
RegisterLookup(s, b, salt) ==
    LET refused == RegisterHandler(users, b.name, b.email, b.password, salt,
                                   nextRefresh, isProd)
        passes == /\ JoiRegisterError(b.name, b.email, b.password) = ""
                  /\ FindByEmail(users, b.email) = NoUser
    IN  /\ regs[s].pc = "idle"
        /\ regs' = [regs EXCEPT ![s] =
                      IF passes
                      THEN [pc |-> "create", body |-> b, salt |-> salt,
                            status |-> 0, code |-> ""]
                      ELSE [pc |-> "done", body |-> b, salt |-> salt,
                            status |-> refused.status,
                            code |-> refused.body.error.code]]
        /\ UNCHANGED <<upds, cookies, handled, aged, isProd, strictQuery, users, nextRefresh,
                       jar, tasks, nextTaskId, last, owner, latest, spent,
                       loggedOut, registry, reqs>>

\* register after User.findOne resolved with null: User.create validates
\* and inserts, the unique index on email refusing a second document, and
\* sendTokenResponse answers; an error goes to errorHandler.
RegisterCreate(s) ==
    LET b == regs[s].body
        at == "controllers/auth.js:37"
        invalid == SchemaError(b.name, b.email, b.password)
        created == CreateUser(users, b.name, b.email, b.password, regs[s].salt)
        out == IF invalid /= ""
               THEN Failure(users, ValidationError(invalid, at), isProd)
               ELSE IF DuplicateKey(users, b.email)
               THEN Failure(users, DuplicateKeyError(at), isProd)
               ELSE SendTokenResponse(created, FindByEmail(created, b.email),
                                      201, nextRefresh)
    IN  /\ regs[s].pc = "create"
        /\ out.rtUsed => nextRefresh <= MaxTokens
        /\ users' = out.users
        /\ nextRefresh' = IF out.rtUsed THEN nextRefresh + 1 ELSE nextRefresh
        /\ regs' = [regs EXCEPT ![s] =
                      [pc |-> "done", body |-> b, salt |-> regs[s].salt,
                       status |-> out.status,
                       code |-> IF out.status = 201 THEN ""
                                ELSE out.body.error.code]]
        /\ IF out.status = 201
           THEN /\ Returned(out.body.user.id, nextRefresh)
                /\ registry' = [e \in DOMAIN registry \cup {b.email} |->
                                   IF e = b.email THEN b.password
                                   ELSE registry[e]]
           ELSE UNCHANGED <<owner, latest, loggedOut, registry>>
        /\ UNCHANGED <<upds, cookies, handled, aged, isProd, strictQuery, jar, tasks,
                       nextTaskId, last, spent, reqs>>

\* register requests of API clients run interleaved at their awaits.
NextRegister ==
    \/ \E s \in Slots, b \in RegisterBodies, salt \in Salts :
          RegisterLookup(s, b, salt)
    \/ \E s \in Slots : RegisterCreate(s)

SpecRegister == Init /\ [][NextRegister]_vars

\* A register body that passes Joi's and the schema's validation.
ValidRegisterBody(b) ==
    /\ JoiRegisterError(b.name, b.email, b.password) = ""
    /\ SchemaError(b.name, b.email, b.password) = ""

\* The list queries sent in the list runs: no filter, the default sort,
\* each paging.  (The claims about these runs range over every query of
\* ListQueries in each state reached.)
PagedQueries ==
    {q \in ListQueries :
        q.completed = "absent" /\ q.priority = "absent" /\ q.sort = "absent"}

\* The list queries of the session-and-task runs: no filter, the default
\* sort, the default paging.
PlainQueries ==
    {q \in ListQueries :
        /\ q.completed = "absent" /\ q.priority = "absent"
        /\ q.sort = "absent" /\ q.paging = [page |-> 1, limit |-> 10]}

\* The number of tasks created in the session-and-task runs.
FrameTasks == 1

\* The credentials of the session-and-task runs: a registered user's JWT
\* as a Bearer header.
UserCredentials == TaskCredentials \ {NoCredential}

\* An API client registers with the valid bodies and then uses every other
\* route, with task bodies that pass validation: sessions and tasks in one
\* run.
NextFrame ==
    \/ \E b \in {r \in RegisterBodies : ValidRegisterBody(r)}, salt \in Salts :
          Register("api", b, salt)
    \/ \E b \in {r \in RegisterBodies : ValidRegisterBody(r)} :
          Login("api", [email |-> b.email, password |-> b.password])
    \/ \E token \in Issued : RefreshToken("api", token)
    \/ \E cred \in UserCredentials : Logout("api", cred)
    \/ \E cred \in UserCredentials : GetMe("api", cred)
    \/ \E cred \in UserCredentials,
          b \in {c \in CreateBodies : JoiCreateTaskOk(c)} :
          /\ nextTaskId <= FrameTasks
          /\ CreateTask("api", cred, b)
    \/ \E cred \in UserCredentials, id \in DOMAIN tasks :
          GetTask("api", cred, id)
    \/ \E cred \in UserCredentials, id \in DOMAIN tasks,
          b \in {u \in UpdateBodies : u.completed = "true"} :
          UpdateTask("api", cred, id, b)
    \/ \E cred \in UserCredentials, id \in DOMAIN tasks :
          DeleteTask("api", cred, id)
    \/ \E cred \in UserCredentials, q \in PlainQueries :
          GetTasks("api", cred, q)

\* Server startup for the task runs.  No task handler queries by
\* refreshTokenExpire, so the query setting is immaterial here.
InitTasks == Init /\ strictQuery

\* Server startup for the task and session runs: a development server.
InitFrame == InitTasks /\ ~isProd

SpecTasks == InitFrame /\ [][NextTasks]_vars

SpecFrame == InitFrame /\ [][NextFrame]_vars

\* API clients register, log in, present refresh tokens and log out.
NextRotate ==
    \/ \E b \in {r \in RegisterBodies : ValidRegisterBody(r)}, salt \in Salts :
          Register("api", b, salt)
    \/ \E b \in LoginBodies : Login("api", b)
    \/ \E token \in PresentedTokens : RefreshToken("api", token)
    \/ \E cred \in UserCredentials : Logout("api", cred)

SpecRotate == InitFrame /\ [][NextRotate]_vars

\* Registered users create, read, update and delete tasks, with every
\* sample body and on every id assigned so far.
NextOwner ==
    \/ \E b \in {r \in RegisterBodies : ValidRegisterBody(r)}, salt \in Salts :
          Register("api", b, salt)
    \/ \E cred \in UserCredentials, b \in CreateBodies :
          CreateTask("api", cred, b)
    \/ \E cred \in UserCredentials, id \in 1 .. (nextTaskId - 1) :
          GetTask("api", cred, id)
    \/ \E cred \in UserCredentials, id \in 1 .. (nextTaskId - 1),
          b \in UpdateBodies :
          UpdateTask("api", cred, id, b)
    \/ \E cred \in UserCredentials, id \in 1 .. (nextTaskId - 1) :
          DeleteTask("api", cred, id)

SpecOwner == InitFrame /\ [][NextOwner]_vars

\* API clients register, create and update tasks, and list them.
NextList ==
    \/ \E b \in RegisterBodies, salt \in Salts : Register("api", b, salt)
    \/ \E cred \in TaskCredentials, b \in CreateBodies :
          CreateTask("api", cred, b)
    \/ \E cred \in TaskCredentials, id \in DOMAIN tasks, b \in UpdateBodies :
          UpdateTask("api", cred, id, b)
    \/ \E cred \in TaskCredentials, q \in PagedQueries :
          GetTasks("api", cred, q)

SpecList == InitFrame /\ [][NextList]_vars

\* ------------------------------------------------------- interleaved runs

\* refreshToken up to its first await: the body check, the hash and
\* User.findOne.  A request refused here is answered at once.
RefreshLookup(s, token) ==
    LET found == FindByRefreshToken(users, Sha256(token), strictQuery)
        refused == RefreshTokenHandler(users, token, nextRefresh, strictQuery,
                                       isProd)
    IN  /\ reqs[s].pc = "idle"
        /\ reqs' = [reqs EXCEPT ![s] =
                      IF token = NoToken \/ found = NoUser
                      THEN [pc |-> "done", token |-> token, user |-> NoUser,
                            rt |-> NoToken, status |-> refused.status]
                      ELSE [pc |-> "found", token |-> token, user |-> found,
                            rt |-> NoToken, status |-> 0]]
        /\ UNCHANGED <<upds, cookies, regs, handled, aged, isProd, strictQuery, users, nextRefresh, jar, tasks,
                       nextTaskId, last, owner, latest, spent, loggedOut,
                       registry>>

\* refreshToken after User.findOne resolved with a user: sendTokenResponse
\* draws the new tokens, awaits User.findByIdAndUpdate and answers.
RefreshSave(s) ==
    LET out == SendTokenResponse(users, reqs[s].user, 200, nextRefresh)
    IN  /\ reqs[s].pc = "found"
        /\ nextRefresh <= MaxTokens
        /\ users' = out.users
        /\ nextRefresh' = nextRefresh + 1
        /\ reqs' = [reqs EXCEPT ![s] =
                      [pc |-> "done", token |-> reqs[s].token,
                       user |-> reqs[s].user, rt |-> out.body.refreshToken,
                       status |-> out.status]]
        /\ Returned(reqs[s].user, nextRefresh)
        /\ spent' = spent \cup {reqs[s].token}
        /\ UNCHANGED <<upds, cookies, regs, handled, aged, isProd, strictQuery, jar, tasks, nextTaskId, last,
                       registry>>

\* Clients register, and refreshToken requests of API clients run
\* interleaved at their awaits.
NextConc ==
    \/ \E c \in Clients, b \in RegisterBodies, salt \in Salts :
          Register(c, b, salt)
    \/ \E s \in Slots, token \in PresentedTokens : RefreshLookup(s, token)
    \/ \E s \in Slots : RefreshSave(s)

SpecConc == Init /\ [][NextConc]_vars

\* Task.findByIdAndUpdate(taskId, sanitizedBody, {new: true,
\* runValidators: true}): the store after it and the id of the document it
\* resolves to, NoTask (null) when no document has the id.  There is no
\* upsert option: nothing is inserted.
FindByIdAndUpdate(ts, id, b) ==
    IF id \in DOMAIN ts
    THEN [tasks |-> [ts EXCEPT ![id] = UpdatedTask(ts[id], b)], doc |-> id]
    ELSE [tasks |-> ts, doc |-> NoTask]

\* updateTask up to its second await: protect, the Joi validation,
\* Task.findById and the ownership check.  A request refused here is
\* answered at once.
UpdateCheck(s, cred, id, b) ==
    LET out == UpdateTaskHandler(users, tasks, cred[1], cred[2], id, b,
                                 isProd)
    IN  /\ upds[s].pc = "idle"
        /\ upds' = [upds EXCEPT ![s] =
                      IF out.status = 200
                      THEN [pc |-> "checked",
                            user |-> Protect(users, cred[1], cred[2]).user,
                            id |-> id, body |-> b, status |-> 0,
                            data |-> NoTask]
                      ELSE [pc |-> "done", user |-> NoUser, id |-> id,
                            body |-> b, status |-> out.status,
                            data |-> NoTask]]
        /\ UNCHANGED <<cookies, regs, handled, aged, isProd, strictQuery,
                       users, nextRefresh, jar, tasks, nextTaskId, last,
                       owner, latest, spent, loggedOut, registry, reqs>>

\* updateTask after the ownership check: Task.findByIdAndUpdate, and the
\* response with what it resolved to as data.
UpdateWrite(s) ==
    LET res == FindByIdAndUpdate(tasks, upds[s].id, upds[s].body)
    IN  /\ upds[s].pc = "checked"
        /\ tasks' = res.tasks
        /\ upds' = [upds EXCEPT ![s].pc = "done", ![s].status = 200,
                                ![s].data = res.doc]
        /\ UNCHANGED <<cookies, regs, handled, aged, isProd, strictQuery,
                       users, nextRefresh, jar, nextTaskId, last, owner,
                       latest, spent, loggedOut, registry, reqs>>

\* Users create and delete tasks, and their updateTask requests run
\* interleaved with these at their awaits.
NextUpdate ==
    \/ \E b \in {r \in RegisterBodies : ValidRegisterBody(r)}, salt \in Salts :
          Register("api", b, salt)
    \/ \E cred \in UserCredentials,
          b \in {c \in CreateBodies : JoiCreateTaskOk(c)} :
          CreateTask("api", cred, b)
    \/ \E s \in Slots, cred \in UserCredentials,
          id \in 1 .. (nextTaskId - 1), b \in UpdateBodies :
          UpdateCheck(s, cred, id, b)
    \/ \E s \in Slots : UpdateWrite(s)
    \/ \E cred \in UserCredentials, id \in DOMAIN tasks :
          DeleteTask("api", cred, id)

SpecUpdate == InitFrame /\ [][NextUpdate]_vars

\* register up to its call of sendTokenResponse, for a body that passes
\* every validation and an email not yet registered: User.create.
RegisterArrive(s, b, salt) ==
    LET created == CreateUser(users, b.name, b.email, b.password, salt)
    IN  /\ reqs[s].pc = "idle"
        /\ ValidRegisterBody(b)
        /\ FindByEmail(users, b.email) = NoUser
        /\ users' = created
        /\ registry' = [e \in DOMAIN registry \cup {b.email} |->
                           IF e = b.email THEN b.password ELSE registry[e]]
        /\ reqs' = [reqs EXCEPT ![s] =
                      [pc |-> "found", token |-> NoToken,
                       user |-> FindByEmail(created, b.email),
                       rt |-> NoToken, status |-> 201]]
        /\ UNCHANGED <<upds, cookies, regs, handled, aged, isProd, strictQuery,
                       nextRefresh, jar, tasks, nextTaskId, last, owner,
                       latest, spent, loggedOut>>

\* login up to its call of sendTokenResponse: the Joi validation,
\* User.findOne and matchPassword.  A request refused here is answered
\* at once.
LoginArrive(s, b) ==
    LET out == LoginHandler(users, b.email, b.password, nextRefresh, isProd)
    IN  /\ reqs[s].pc = "idle"
        /\ reqs' = [reqs EXCEPT ![s] =
                      IF out.status = 200
                      THEN [pc |-> "found", token |-> NoToken,
                            user |-> FindByEmail(users, b.email),
                            rt |-> NoToken, status |-> 200]
                      ELSE [pc |-> "done", token |-> NoToken,
                            user |-> NoUser, rt |-> NoToken,
                            status |-> out.status]]
        /\ UNCHANGED <<upds, cookies, regs, handled, aged, isProd, strictQuery,
                       users, nextRefresh, jar, tasks, nextTaskId, last,
                       owner, latest, spent, loggedOut, registry>>

\* The statusCode sendTokenResponse was called with: 201 by register, 200
\* by login and by refreshToken.
StatusCode(req) == IF req.status = 0 THEN 200 ELSE req.status

\* sendTokenResponse up to its await: getSignedJwtToken,
\* getSignedRefreshToken and the call of User.findByIdAndUpdate.
SendTokenDraw(s) ==
    /\ reqs[s].pc = "found"
    /\ nextRefresh <= MaxTokens
    /\ nextRefresh' = nextRefresh + 1
    /\ reqs' = [reqs EXCEPT ![s] =
                  [pc |-> "saving", token |-> reqs[s].token,
                   user |-> reqs[s].user, rt |-> nextRefresh,
                   status |-> reqs[s].status]]
    /\ UNCHANGED <<upds, cookies, regs, handled, aged, isProd, strictQuery, users,
                   jar, tasks, nextTaskId, last, owner, latest, spent,
                   loggedOut, registry>>

\* The store applies the update sendTokenResponse asked for, and the
\* promise of User.findByIdAndUpdate resolves.
SendTokenStore(s) ==
    /\ reqs[s].pc = "saving"
    /\ users' = UpdateRefreshToken(users, reqs[s].user, Sha256(reqs[s].rt))
    /\ reqs' = [reqs EXCEPT ![s].pc = "saved"]
    /\ UNCHANGED <<upds, cookies, regs, handled, aged, isProd, strictQuery,
                   nextRefresh, jar, tasks, nextTaskId, last, owner, latest,
                   spent, loggedOut, registry>>

\* A sendTokenResponse that does not wait for the update: it answers as
\* soon as the update is asked for.
Unawaited(pc) == pc \in {"saving", "saved"}

\* await User.findByIdAndUpdate(...): sendTokenResponse goes on to the
\* cookies and the JSON body when the promise has resolved.
Awaited(pc) == pc = "saved"

\* sendTokenResponse after its await: the cookies and the JSON body.
SendTokenRespond(s) ==
    /\ Awaited(reqs[s].pc)
    /\ reqs' = [reqs EXCEPT ![s] =
                  [pc |-> "done", token |-> reqs[s].token,
                   user |-> reqs[s].user, rt |-> reqs[s].rt,
                   status |-> StatusCode(reqs[s])]]
    /\ Returned(reqs[s].user, reqs[s].rt)
    /\ spent' = IF reqs[s].token = NoToken THEN spent
                ELSE spent \cup {reqs[s].token}
    /\ UNCHANGED <<upds, cookies, regs, handled, aged, isProd, strictQuery, users,
                   nextRefresh, jar, tasks, nextTaskId, last, registry>>

\* API clients register, log in, refresh and log out, the requests that
\* reach sendTokenResponse running interleaved at their awaits.
NextAwait ==
    \/ \E b \in {r \in RegisterBodies : ValidRegisterBody(r)}, salt \in Salts :
          Register("api", b, salt)
    \/ \E s \in Slots, b \in RegisterBodies, salt \in Salts :
          RegisterArrive(s, b, salt)
    \/ \E s \in Slots, b \in LoginBodies : LoginArrive(s, b)
    \/ \E s \in Slots, token \in PresentedTokens : RefreshLookup(s, token)
    \/ \E s \in Slots : SendTokenDraw(s)
    \/ \E s \in Slots : SendTokenStore(s)
    \/ \E s \in Slots : SendTokenRespond(s)
    \/ \E cred \in UserCredentials : Logout("api", cred)

SpecAwait == InitFrame /\ [][NextAwait]_vars

\* ------------------------------------------------------- claims under Spec

\* The response a refreshToken call presenting t gets in the current state.
RefreshOutcome(t) ==
    RefreshTokenHandler(users, t, nextRefresh, strictQuery, isProd)

\* The response a login with body b gets in the current state.
LoginOutcome(b) ==
    LoginHandler(users, b.email, b.password, nextRefresh, isProd)

\* C1: a refreshToken call presenting the refresh token returned last for
\* its user (no login, refresh or logout of that user since) responds 200
\* with a new token pair, and a call presenting a token that an earlier
\* call has already exchanged responds 401 'Invalid or expired refresh
\* token'.
C1_RefreshSucceedsExactlyOnce ==
    [][\A t \in Issued :
          (last'.op = "refreshToken" /\ last'.token = t) =>
             /\ t = latest[owner[t]] =>
                   /\ last'.status = 200
                   /\ RefreshOutcome(t).body.success
                   /\ RefreshOutcome(t).body.refreshToken /= t
             /\ t \in spent =>
                   /\ last'.status = 401
                   /\ RefreshOutcome(t).body.error.message
                         = "Invalid or expired refresh token"]_vars

\* C4: while a user's last session operation is a logout, a refreshToken
\* call presenting any refresh token returned for that user responds 401
\* 'Invalid or expired refresh token'.
C4_LogoutRevokesRefreshTokens ==
    \A u \in loggedOut : \A t \in Issued :
        owner[t] = u =>
            /\ RefreshOutcome(t).status = 401
            /\ RefreshOutcome(t).body.error.message
                  = "Invalid or expired refresh token"

\* C4's case: with the hash lookup in force, a refreshToken call has just
\* presented a logged-out user's token and was refused.
C4_Witness ==
    /\ strictQuery
    /\ last.op = "refreshToken"
    /\ last.status = 401
    /\ last.token \in Issued
    /\ owner[last.token] \in loggedOut

\* C5: a logout that follows a successful logout of the same client (the
\* browser with its cookies, or the API client with a header for the same
\* user) responds 200 too, and the refresh state stays cleared.
C5_LogoutTwice ==
    [][(/\ last.op = "logout" /\ last.status = 200
        /\ last'.op = "logout"
        /\ last'.client = last.client
        /\ last.client = "api" => last'.user = last.user)
       => (last'.status = 200 /\ \A u \in loggedOut : u \in loggedOut')]_vars

\* C6: a register with a valid body whose email is not registered responds
\* 201 with a token and a refresh token, and in every later state a login
\* with a registered email and its password responds 200.
C6_RegisterThenLogin ==
    /\ \A b \in RegisterBodies : \A salt \in Salts :
          (ValidRegisterBody(b) /\ FindByEmail(users, b.email) = NoUser) =>
             LET out == RegisterHandler(users, b.name, b.email, b.password,
                                        salt, nextRefresh, isProd)
             IN  /\ out.status = 201
                 /\ JwtVerifies(out.body.token)
                 /\ out.body.refreshToken /= NoToken
    /\ \A e \in DOMAIN registry :
          LoginOutcome([email |-> e, password |-> registry[e]]).status = 200

\* C6's case: a registered user logs in successfully after a refresh token
\* was exchanged.
C6_Witness ==
    /\ last.op = "login"
    /\ last.status = 200
    /\ spent /= {}
    /\ Cardinality(DOMAIN registry) >= 1

\* The failed logins of the current state: bodies with an unregistered
\* email, and bodies with a registered email and a wrong password.
UnknownEmailLogins ==
    {b \in LoginBodies : /\ JoiLoginError(b.email, b.password) = ""
                         /\ FindByEmail(users, b.email) = NoUser}

WrongPasswordLogins ==
    {b \in LoginBodies :
        /\ JoiLoginError(b.email, b.password) = ""
        /\ FindByEmail(users, b.email) /= NoUser
        /\ ~MatchPassword(b.password,
                          users[FindByEmail(users, b.email)].password)}

\* C7 as amended: the two failed logins get status 401, the message
\* 'Invalid credentials' and the same error code; in production the whole
\* body is the same.
C7_SameStatusMessageCode ==
    \A b1 \in UnknownEmailLogins : \A b2 \in WrongPasswordLogins :
        /\ LoginOutcome(b1).status = 401
        /\ LoginOutcome(b2).status = 401
        /\ LoginOutcome(b1).body.error.message = "Invalid credentials"
        /\ LoginOutcome(b2).body.error.message = "Invalid credentials"
        /\ LoginOutcome(b1).body.error.code = LoginOutcome(b2).body.error.code
        /\ isProd => LoginOutcome(b1).body = LoginOutcome(b2).body

\* C7 as stated: nothing in the response tells the two failed logins apart.
C7_IdenticalResponse ==
    \A b1 \in UnknownEmailLogins : \A b2 \in WrongPasswordLogins :
        /\ LoginOutcome(b1).status = LoginOutcome(b2).status
        /\ LoginOutcome(b1).body = LoginOutcome(b2).body

\* C7's case: one email is registered, another is not, and a login has just
\* been refused with 401.
C7_Witness ==
    /\ UnknownEmailLogins /= {}
    /\ WrongPasswordLogins /= {}
    /\ last.op = "login"
    /\ last.status = 401

\* The two ways a request carries an access token.
Carried(token) ==
    {<<token, NoAuth>>, <<Absent, [scheme |-> "Bearer", token |-> token]>>}

\* The response of a protected route (getMe) to a credential.
GuardedOutcome(cred) == GetMeHandler(users, cred[1], cred[2], isProd)

\* What jwt.verify looks at: the signature and the exp claim.
SignatureValid(token) == token.kind \in {"jwt", "expired"}

Expired(token) == token.kind = "expired"

\* The access tokens a request can carry.
AccessTokens ==
    {Garbage, NoneCookie}
    \cup {Jwt(u) : u \in UserIds \cup {GoneUser}}
    \cup {ExpiredJwt(u) : u \in UserIds \cup {GoneUser}}

\* C15: protect accepts an access token exactly when its signature is
\* valid, it has not expired and its user exists, and then attaches that
\* user; whether the user has logged out or rotated the refresh token plays
\* no part.
C15_AccessTokenStateless ==
    \A token \in AccessTokens : \A cred \in Carried(token) :
        /\ Protect(users, cred[1], cred[2]).ok
              <=> (/\ SignatureValid(token)
                   /\ ~Expired(token)
                   /\ token.id \in DOMAIN users)
        /\ Protect(users, cred[1], cred[2]).ok
              => Protect(users, cred[1], cred[2]).user = token.id

\* C15's case: a user who logged out, and whose refresh token had been
\* exchanged before, has just been served with the access token.
C15_Witness ==
    /\ last.op = "getMe"
    /\ last.status = 200
    /\ last.client = "api"
    /\ last.user \in loggedOut
    /\ users[last.user].refreshToken = NoToken
    /\ \E t \in spent : owner[t] = last.user

\* C17: the refresh value stored for a user is null after a logout and
\* otherwise the SHA-256 hash of the refresh token returned last for that
\* user; it is never a refresh token that a response held.
C17_OnlyHashStored ==
    \A u \in DOMAIN users :
        /\ users[u].refreshToken
              = IF latest[u] = NoToken THEN NoToken ELSE Sha256(latest[u])
        /\ \A t \in Issued : users[u].refreshToken /= t

\* C17's case: a refresh token has just been exchanged and the store holds
\* the hash of the new one.
C17_Witness ==
    /\ last.op = "refreshToken"
    /\ last.status = 200
    /\ latest[owner[last.token]] /= last.token
    /\ users[owner[last.token]].refreshToken
          = Sha256(latest[owner[last.token]])

\* C3: each user has at most one refresh token that a refreshToken call
\* would accept, and it is the one returned last for that user: every token
\* returned earlier is refused.
C3_AtMostOneLiveRefreshToken ==
    \A t \in Issued :
        RefreshOutcome(t).status = 200 => t = latest[owner[t]]

\* C3's case: a user's token has been exchanged, the exchanged one is
\* refused and the one returned for it is accepted.
C3_Witness ==
    /\ last.op = "refreshToken"
    /\ last.status = 200
    /\ RefreshOutcome(last.token).status = 401
    /\ RefreshOutcome(latest[owner[last.token]]).status = 200

\* The token cookies and Authorization headers a request can carry; a
\* 'Bearer' header with nothing after it yields no token.
CookieInputs == {Absent, NoneCookie, Garbage} \cup {Jwt(u) : u \in UserIds}

HeaderInputs ==
    {NoAuth}
    \cup [scheme : {"Bearer", "raw"},
          token : {Absent, Garbage} \cup {Jwt(u) : u \in UserIds}]

\* C12: protect verifies the token cookie whenever the request has one,
\* whatever the Authorization header says; without a token cookie it
\* verifies the header's token, and 'Bearer <token>' and the raw token get
\* the same verdict.
C12_CookieFirst ==
    \A cookie \in CookieInputs : \A auth \in HeaderInputs :
        /\ cookie /= Absent =>
              Protect(users, cookie, auth) = Protect(users, cookie, NoAuth)
        /\ \A u \in DOMAIN users :
              /\ Protect(users, Jwt(u), auth).ok
              /\ Protect(users, Jwt(u), auth).user = u
              /\ Protect(users, Absent,
                         [scheme |-> "Bearer", token |-> Jwt(u)]).user = u
              /\ Protect(users, Absent,
                         [scheme |-> "raw", token |-> Jwt(u)]).user = u
        /\ (cookie = Absent /\ auth.scheme /= "absent") =>
              Protect(users, cookie, auth)
                 = Protect(users, Absent,
                           [scheme |-> "raw", token |-> auth.token])

\* C12's case: a request with one user's token cookie and another user's
\* Bearer header has just been served as the cookie's user.
C12_Witness ==
    /\ last.op = "getMe"
    /\ last.status = 200
    /\ last.cred[1] /= Absent
    /\ last.cred[2].scheme = "Bearer"
    /\ JwtVerifies(last.cred[2].token)
    /\ last.cred[2].token /= last.cred[1]
    /\ last.cred[1] = Jwt(last.user)

\* C13: a request with a malformed or badly signed access token and a
\* request with a correctly signed, expired one get the same response:
\* status 401 with the same message and the same error code.
C13_BadAndExpiredAlike ==
    \A bad \in {Garbage, NoneCookie} : \A u \in UserIds :
        \A c1 \in Carried(bad) : \A c2 \in Carried(ExpiredJwt(u)) :
            /\ GuardedOutcome(c1).status = 401
            /\ GuardedOutcome(c2).status = 401
            /\ GuardedOutcome(c1).body.error.message
                  = GuardedOutcome(c2).body.error.message
            /\ GuardedOutcome(c1).body.error.code
                  = GuardedOutcome(c2).body.error.code
            /\ GuardedOutcome(c1).body = GuardedOutcome(c2).body

\* C13's case: a request with a registered user's expired token has just
\* been refused.
C13_Witness ==
    /\ last.op = "getMe"
    /\ last.status = 401
    /\ last.cred[2].token.kind = "expired"
    /\ last.cred[2].token.id \in DOMAIN users

\* C14: a verified, unexpired access token whose id has no user gets 401;
\* protect attaches no user, and the handler behind it neither answers nor
\* writes.
C14_GoneUserRejected ==
    \A cred \in Carried(Jwt(GoneUser)) :
        /\ ~Protect(users, cred[1], cred[2]).ok
        /\ Protect(users, cred[1], cred[2]).user = NoUser
        /\ Protect(users, cred[1], cred[2]).err.statusCode = 401
        /\ GuardedOutcome(cred).status = 401
        /\ ~GuardedOutcome(cred).body.success
        /\ LogoutHandler(users, cred[1], cred[2], isProd).status = 401
        /\ LogoutHandler(users, cred[1], cred[2], isProd).users = users
        /\ LogoutHandler(users, cred[1], cred[2], isProd).setCookie = Absent

\* C14's case: a request with a removed user's token has just been refused
\* while other users exist.
C14_Witness ==
    /\ last.op = "getMe"
    /\ last.status = 401
    /\ last.cred[2].token = Jwt(GoneUser)
    /\ last.user = NoUser
    /\ DOMAIN users /= {}

\* The credentials a request reaching protect can carry in this state.
ProtectCredentials ==
    MixedCredentials
    \cup {<<Absent, h>> : h \in AuthHeaders \cup StaleHeaders}

\* The run ended Rejected: next got a 401 error and req.user is unset.
Rejected(run) ==
    /\ run.calls[1].statusCode = 401
    /\ run.user = NoUser

\* The run ended Verified: next got no error and req.user is the stored
\* user whose id the verified token carries.
Verified(run, token) ==
    /\ run.calls[1] = NoError
    /\ JwtVerifies(token)
    /\ token.id \in DOMAIN users
    /\ run.user = token.id

\* C30: protect calls next exactly once and ends every request either
\* Rejected (a 401 error to next, always so without a credential) or
\* Verified (req.user is the stored user of the verified token's id, next
\* without an error), never both and never neither; a handler behind it
\* runs only with req.user set to the token's user.
C30_ProtectOutcomes ==
    \A cred \in ProtectCredentials, lookup \in Lookups, handler \in Handlers :
        LET run == ProtectRun(users, cred[1], cred[2], lookup, handler)
            token == ExtractToken(cred[1], cred[2])
        IN  /\ Len(run.calls) = 1
            /\ Rejected(run) /= Verified(run, token)
            /\ cred = NoCredential => Rejected(run)
            /\ lookup = "answered" =>
                  /\ Protect(users, cred[1], cred[2]).ok = Verified(run, token)
                  /\ Protect(users, cred[1], cred[2]).user = run.user

\* C30's case: protect has just passed a request on with its user
\* attached, and a request without a credential would be rejected.
C30_Witness ==
    /\ last.op = "getMe"
    /\ last.status = 200
    /\ last.user /= NoUser
    /\ ProtectRun(users, last.cred[1], last.cred[2], "answered",
                  [async |-> TRUE, throws |-> TRUE]).calls = <<NoError>>
    /\ ProtectRun(users, last.cred[1], last.cred[2], "answered",
                  [async |-> TRUE, throws |-> TRUE]).user = last.user
    /\ Rejected(ProtectRun(users, Absent, NoAuth, "answered",
                           [async |-> TRUE, throws |-> TRUE]))

\* -------------------------------------------------- claims under SpecTasks

\* The credentials any client can put on a request in the current state.
AllCredentials == UNION {Credentials(c) : c \in Clients}

\* The user a credential authenticates, or NoUser.
Caller(cred) == Protect(users, cred[1], cred[2]).user

TaskGet(cred, id) ==
    GetTaskHandler(users, tasks, cred[1], cred[2], id, isProd)

TaskUpdate(cred, id, b) ==
    UpdateTaskHandler(users, tasks, cred[1], cred[2], id, b, isProd)

TaskDelete(cred, id) ==
    DeleteTaskHandler(users, tasks, cred[1], cred[2], id, isProd)

\* The requests of an authenticated user on another user's task.
ForeignRequests ==
    {<<cred, id>> \in AllCredentials \X DOMAIN tasks :
        Caller(cred) /= NoUser /\ Caller(cred) /= tasks[id].user}

\* The requests of an authenticated user on an id no task has.
MissingRequests ==
    {<<cred, id>> \in AllCredentials \X (TaskIdInputs \ DOMAIN tasks) :
        Caller(cred) /= NoUser}

\* C8 as amended: a getTask or deleteTask by an authenticated non-owner
\* gets 403, and so does an updateTask whose body passes validation; an
\* updateTask whose body fails validation gets 400 before the task is
\* looked up.
C8_ForeignTaskForbidden ==
    \A r \in ForeignRequests :
        /\ TaskGet(r[1], r[2]).status = 403
        /\ TaskDelete(r[1], r[2]).status = 403
        /\ \A b \in UpdateBodies :
              TaskUpdate(r[1], r[2], b).status
                 = IF JoiUpdateTaskOk(b) THEN 403 ELSE 400

\* C8 as stated: every getTask, updateTask and deleteTask by an
\* authenticated non-owner gets 403.
C8_AlwaysForbidden ==
    \A r \in ForeignRequests :
        /\ TaskGet(r[1], r[2]).status = 403
        /\ TaskDelete(r[1], r[2]).status = 403
        /\ \A b \in UpdateBodies : TaskUpdate(r[1], r[2], b).status = 403

\* C8's case: an authenticated user has just asked to update another
\* user's task and was refused with 403.
C8_Witness ==
    /\ last.op = "updateTask"
    /\ last.status = 403
    /\ last.task \in DOMAIN tasks
    /\ last.user /= NoUser
    /\ tasks[last.task].user /= last.user

\* C9 as amended: for an id no task has, getTask and deleteTask by an
\* authenticated user get 404, and so does an updateTask whose body passes
\* validation; an updateTask whose body fails validation gets 400; none of
\* them changes the task store.
C9_MissingTaskNotFound ==
    \A r \in MissingRequests :
        /\ TaskGet(r[1], r[2]).status = 404
        /\ TaskGet(r[1], r[2]).tasks = tasks
        /\ TaskDelete(r[1], r[2]).status = 404
        /\ TaskDelete(r[1], r[2]).tasks = tasks
        /\ \A b \in UpdateBodies :
              /\ TaskUpdate(r[1], r[2], b).status
                    = IF JoiUpdateTaskOk(b) THEN 404 ELSE 400
              /\ TaskUpdate(r[1], r[2], b).tasks = tasks

\* C9 as stated: for an id no task has, every getTask, updateTask and
\* deleteTask by an authenticated user gets 404.
C9_AlwaysNotFound ==
    \A r \in MissingRequests :
        /\ TaskGet(r[1], r[2]).status = 404
        /\ TaskDelete(r[1], r[2]).status = 404
        /\ \A b \in UpdateBodies : TaskUpdate(r[1], r[2], b).status = 404

\* C9's case: an authenticated user has just asked to delete a task that
\* was deleted before, and got 404.
C9_Witness ==
    /\ last.op = "deleteTask"
    /\ last.status = 404
    /\ last.user /= NoUser
    /\ IsObjectId(last.task)
    /\ last.task < nextTaskId
    /\ last.task \notin DOMAIN tasks

\* C10: a step that changes or removes a stored task is a successful
\* updateTask or deleteTask of that task by its owner; a request of a
\* non-owner and a request answered 400, 401, 403 or 404 leave the stored
\* tasks as they were.
C10_OnlyOwnerChangesTask ==
    [][/\ \A id \in DOMAIN tasks :
             (id \notin DOMAIN tasks' \/ tasks'[id] /= tasks[id]) =>
                /\ last'.op = IF id \in DOMAIN tasks' THEN "updateTask"
                              ELSE "deleteTask"
                /\ last'.task = id
                /\ last'.user = tasks[id].user
                /\ last'.status = 200
       /\ (/\ last' /= last
           /\ \/ last'.status \in {400, 401, 403, 404}
              \/ /\ last'.op \in {"getTask", "updateTask", "deleteTask"}
                 /\ last'.task \in DOMAIN tasks
                 /\ tasks[last'.task].user /= last'.user)
          => \A id \in DOMAIN tasks :
                id \in DOMAIN tasks' /\ tasks'[id] = tasks[id]]_vars

\* C10's case: a non-owner's updateTask has just been refused while the
\* task's owner had changed it before.
C10_Witness ==
    /\ last.op = "updateTask"
    /\ last.status = 403
    /\ last.task \in DOMAIN tasks
    /\ tasks[last.task].title = "Walk dog"
    /\ tasks[last.task].completed

\* C11: whatever the filters, the sort, the page and the limit, a getTasks
\* response lists only stored tasks of the authenticated caller, and its
\* total counts no more tasks than the caller owns.
C11_ListScopedToCaller ==
    \A cred \in AllCredentials : \A q \in ListQueries :
        \A out \in GetTasksHandler(users, tasks, cred[1], cred[2], q, isProd) :
            out.status = 200 =>
               /\ Caller(cred) /= NoUser
               /\ \A i \in DOMAIN out.body.data :
                     /\ out.body.data[i].id \in DOMAIN tasks
                     /\ out.body.data[i].user = Caller(cred)
                     /\ tasks[out.body.data[i].id].user = Caller(cred)
               /\ out.body.pagination.total
                     <= Cardinality({id \in DOMAIN tasks :
                                        tasks[id].user = Caller(cred)})

\* C11's case: a user who owns a task has just listed tasks while the
\* store also holds another user's task.
C11_Witness ==
    /\ last.op = "getTasks"
    /\ last.status = 200
    /\ \E id \in DOMAIN tasks : tasks[id].user = last.user
    /\ \E id \in DOMAIN tasks : tasks[id].user /= last.user

\* -------------------------------------------------- claims under SpecOwner

\* The ids Task.create has assigned that no stored task has: the tasks a
\* deleteTask has removed.
DeletedIds == (1 .. (nextTaskId - 1)) \ DOMAIN tasks

\* No getTasks response lists the task id.
NeverListed(id) ==
    \A cred \in TaskCredentials : \A q \in ListQueries :
        \A out \in GetTasksHandler(users, tasks, cred[1], cred[2], q, isProd) :
            out.status = 200 =>
                \A i \in DOMAIN out.body.data : out.body.data[i].id /= id

\* The requests of an authenticated user on the id of a deleted task.
DeletedRequests ==
    {<<cred, id>> \in AllCredentials \X DeletedIds : Caller(cred) /= NoUser}

\* For every deleted task: getTask and deleteTask get 404, an updateTask
\* gets 404 when its body passes validation and 400 when it does not, and
\* no list shows the task.
DeletedAnswers ==
    /\ \A r \in DeletedRequests :
          /\ TaskGet(r[1], r[2]).status = 404
          /\ TaskDelete(r[1], r[2]).status = 404
          /\ \A b \in UpdateBodies :
                TaskUpdate(r[1], r[2], b).status
                    = IF JoiUpdateTaskOk(b) THEN 404 ELSE 400
    /\ \A id \in DeletedIds : NeverListed(id)

\* For every deleted task: getTask, deleteTask and every updateTask get
\* 404, and no list shows the task.
DeletedAlwaysNotFound ==
    /\ \A r \in DeletedRequests :
          /\ TaskGet(r[1], r[2]).status = 404
          /\ TaskDelete(r[1], r[2]).status = 404
          /\ \A b \in UpdateBodies : TaskUpdate(r[1], r[2], b).status = 404
    /\ \A id \in DeletedIds : NeverListed(id)

\* A deleteTask answered 200 removes its task, and a removed task stays
\* removed.
DeletionIsFinal ==
    /\ (last'.op = "deleteTask" /\ last'.status = 200)
           => last'.task \in DeletedIds'
    /\ DeletedIds \subseteq DeletedIds'

\* C25 as amended: after a deleteTask on T answered 200, T is absent from
\* the store in every later state, an authenticated getTask or deleteTask
\* on T's id gets 404, an updateTask gets 404 when its body passes
\* validation and 400 when it does not, and no getTasks response lists T.
C25_DeletedForGood == [][DeletionIsFinal]_vars /\ []DeletedAnswers

\* C25 as stated: after a deleteTask on T answered 200, every later
\* getTask, updateTask and deleteTask on T's id gets 404 and no getTasks
\* response lists T.
C25_DeletedAlwaysNotFound ==
    [][DeletionIsFinal]_vars /\ []DeletedAlwaysNotFound

\* C25's case: a task was deleted, a task was created after it, and the
\* owner has just asked for the deleted one and got 404.
C25_Witness ==
    /\ last.op = "getTask"
    /\ last.status = 404
    /\ last.user /= NoUser
    /\ last.task \in DeletedIds
    /\ \E id \in DOMAIN tasks : id > last.task /\ tasks[id].user = last.user

\* C26: the user field of a task is the id of the authenticated user who
\* created it: a task enters the store by a createTask and with the
\* caller's id, and no step changes the user of a stored task.
C26_TaskOwnerImmutable ==
    [][\A id \in DOMAIN tasks' :
          IF id \in DOMAIN tasks
          THEN tasks'[id].user = tasks[id].user
          ELSE /\ last'.op = "createTask"
               /\ last'.user /= NoUser
               /\ tasks'[id].user = last'.user]_vars

\* C26's case: the owner of a stored task has just sent an update whose
\* body has a user key, and was refused with 400.
C26_Witness ==
    /\ last.op = "updateTask"
    /\ last.status = 400
    /\ last.task \in DOMAIN tasks
    /\ tasks[last.task].user = last.user

\* ---------------------------------------------------- claims under SpecFrame

\* The routes other than register.
FrameOps ==
    {"login", "refreshToken", "logout", "getMe", "getTasks", "getTask",
     "createTask", "updateTask", "deleteTask"}

\* C27: a request of any route but register adds and removes no user and
\* leaves every user's name, email, createdAt and password hash as they
\* were; a stored refresh hash changes only in a login or refreshToken, for
\* the user the response was issued for and to the hash of the token
\* returned, or in a logout, for the caller and to nothing.
C27_UserRecordFrame ==
    [][last'.op \in FrameOps =>
          /\ DOMAIN users' = DOMAIN users
          /\ \A u \in DOMAIN users :
                /\ users'[u].name = users[u].name
                /\ users'[u].email = users[u].email
                /\ users'[u].createdAt = users[u].createdAt
                /\ users'[u].password = users[u].password
                /\ users'[u].refreshToken /= users[u].refreshToken =>
                      \/ /\ last'.op \in {"login", "refreshToken"}
                         /\ last'.status = 200
                         /\ latest'[u] = nextRefresh
                         /\ users'[u].refreshToken = Sha256(nextRefresh)
                      \/ /\ last'.op = "logout"
                         /\ last'.status = 200
                         /\ last'.user = u
                         /\ users'[u].refreshToken = NoToken]_vars

\* C27's case: two users are stored, one owns a task, and the other has
\* just logged in and holds a new refresh hash.
C27_Witness ==
    /\ last.op = "login"
    /\ last.status = 200
    /\ Cardinality(DOMAIN users) = 2
    /\ tasks /= <<>>
    /\ \E u \in DOMAIN users :
          /\ latest[u] = nextRefresh - 1
          /\ users[u].refreshToken = Sha256(latest[u])
          /\ \A id \in DOMAIN tasks : tasks[id].user /= u

\* The caller's tasks that pass the filters of query q.
OwnMatching(cred, q) ==
    {id \in DOMAIN tasks :
        /\ tasks[id].user = Caller(cred)
        /\ q.completed = "true" => tasks[id].completed
        /\ q.completed = "false" => ~tasks[id].completed
        /\ q.priority /= "absent" => PriorityOf(tasks[id]) = q.priority}

\* The place of a task in the sort order of query q: smaller comes first.
\* The default is createdAt descending.
OrderKey(q, id) ==
    IF q.sort = "absent" THEN 0 - SortKey(tasks, id, "createdAt")
    ELSE IF q.sortDir = "desc" THEN 0 - SortKey(tasks, id, q.sort)
    ELSE SortKey(tasks, id, q.sort)

C16_UnknownOrExpiredRefused ==
    \A t \in PresentedTokens \ {NoToken} :
        (\/ \A u \in DOMAIN users : users[u].refreshToken /= Sha256(t)
         \/ t \in aged)
        => /\ RefreshOutcome(t).status = 401
           /\ RefreshOutcome(t).body.error.message
                 = "Invalid or expired refresh token"
           /\ RefreshOutcome(t).users = users

\* --------------------------------------------------- claims under SpecFail

\* The failure envelope: success false, and an error with a message and a
\* code.
HasEnvelope(body) ==
    /\ body.success = FALSE
    /\ "error" \in DOMAIN body
    /\ {"message", "code"} \subseteq DOMAIN body.error

\* The responses the auth routes can give in the current state, with the
\* store accepting or rejecting the update of sendTokenResponse.
AuthOutcomes ==
    LET served ==
            {RegisterHandler(users, b.name, b.email, b.password, salt,
                             nextRefresh, isProd) :
                b \in RegisterBodies, salt \in Salts}
            \cup {LoginOutcome(b) : b \in LoginBodies}
            \cup {RefreshOutcome(t) : t \in PresentedTokens}
            \cup {GuardedOutcome(cred) : cred \in AllCredentials}
            \cup {LogoutHandler(users, cred[1], cred[2], isProd) :
                     cred \in AllCredentials}
    IN  served \cup {WhenSaveFails(users, out) : out \in served}

\* The responses the task routes can give in the current state.
TaskOutcomes ==
    UNION {{TaskGet(cred, id), TaskDelete(cred, id)} :
              cred \in AllCredentials, id \in TaskIdInputs}
    \cup {TaskUpdate(cred, id, b) :
             cred \in AllCredentials, id \in TaskIdInputs, b \in UpdateBodies}
    \cup {CreateTaskHandler(users, tasks, cred[1], cred[2], b, nextTaskId,
                            isProd) :
             cred \in AllCredentials, b \in CreateBodies}
    \cup UNION {GetTasksHandler(users, tasks, cred[1], cred[2], q, isProd) :
                   cred \in AllCredentials, q \in ListQueries}

\* C18: every response with a failure status, of every auth and task
\* route, has the body shape {success: false, error: {message, code}}.
C18_UniformEnvelope ==
    /\ \A out \in AuthOutcomes : out.status >= 400 => HasEnvelope(out.body)
    /\ \A out \in TaskOutcomes : out.status >= 400 => HasEnvelope(out.body)

\* ------------------------------------------------- claims under SpecErrors

\* The error matches none of errorHandler's five conditions.
Unclassified(err) ==
    /\ err.name \notin {"CastError", "ValidationError", "JsonWebTokenError",
                        "TokenExpiredError"}
    /\ err.code /= 11000

\* The response handled records has this code and this status.
Answered(code, status) ==
    handled.body.error.code = code /\ handled.status = status

\* The five classified rows of the table, for the error handled last.
ClassifiedRows ==
    /\ handled.err.name = "CastError" => Answered("RESOURCE_NOT_FOUND", 404)
    /\ handled.err.code = 11000 => Answered("DUPLICATE_VALUE", 400)
    /\ handled.err.name = "ValidationError"
           => Answered("VALIDATION_ERROR", 400)
    /\ handled.err.name = "JsonWebTokenError" => Answered("INVALID_TOKEN", 401)
    /\ handled.err.name = "TokenExpiredError" => Answered("TOKEN_EXPIRED", 401)

\* C19 as stated: the response of errorHandler follows the classification
\* table, and an error matching none of the five conditions is answered
\* with code SERVER_ERROR and status 500.
C19_TableWithDefault500 ==
    handled.status /= 0 =>
        /\ ClassifiedRows
        /\ Unclassified(handled.err) => Answered("SERVER_ERROR", 500)

\* C19: the response of errorHandler follows the five classified rows of
\* the table; an error matching none of them is answered with its own
\* errorCode, SERVER_ERROR when it has none, and with its own statusCode,
\* 500 when it has none.
C19_ClassificationTable ==
    handled.status /= 0 =>
        /\ ClassifiedRows
        /\ Unclassified(handled.err) =>
              Answered(IF handled.err.errorCode = "" THEN "SERVER_ERROR"
                       ELSE handled.err.errorCode,
                       IF handled.err.statusCode = 0 THEN 500
                       ELSE handled.err.statusCode)

\* errorHandler has answered an ErrorResponse raised with status 401 and
\* no error code: SERVER_ERROR with status 401.
C19_Witness ==
    /\ handled.status = 401
    /\ handled.err.name = "Error"
    /\ handled.err.errorCode = ""
    /\ handled.body.error.code = "SERVER_ERROR"

\* C20: in production, a response errorHandler sends with a 5xx status
\* carries the message 'Server Error', whether or not the raised error has
\* a statusCode of its own.
C20_ProductionHidesMessage ==
    (isProd /\ handled.status >= 500) =>
        handled.body.error.message = "Server Error"

\* C21: the log entry of a failure matches the status class of its
\* response: error level with stack and request path for a 5xx response,
\* warning level for a 4xx response.
C21_SeverityMatchesStatus ==
    /\ handled.status >= 500 =>
          /\ handled.log.level = "error"
          /\ handled.log.stack
          /\ handled.log.path
    /\ (handled.status >= 400 /\ handled.status < 500) =>
          handled.log.level = "warn"

\* C23: a register whose body passes validation and whose email is already
\* registered responds 400 with code DUPLICATE_VALUE and leaves the users
\* collection as it is: no user created, no existing document changed.
C23_DuplicateEmailRefused ==
    \A b \in RegisterBodies, salt \in Salts :
        (ValidRegisterBody(b) /\ FindByEmail(users, b.email) /= NoUser) =>
            LET out == RegisterHandler(users, b.name, b.email, b.password,
                                       salt, nextRefresh, isProd)
            IN  /\ out.status = 400
                /\ out.body.error.code = "DUPLICATE_VALUE"
                /\ out.users = users

\* ------------------------------------------------ claims under SpecProtect

\* The responses of register, login, refreshToken, getMe and logout in the
\* current state.
SessionOutcomes ==
    {RegisterHandler(users, b.name, b.email, b.password, salt, nextRefresh,
                     isProd) : b \in RegisterBodies, salt \in Salts}
    \cup {LoginOutcome(b) : b \in LoginBodies}
    \cup {RefreshOutcome(t) : t \in PresentedTokens}
    \cup {GuardedOutcome(cred) : cred \in AllCredentials}
    \cup {LogoutHandler(users, cred[1], cred[2], isProd) :
             cred \in AllCredentials}

\* The body carries no password, no password hash and no stored refresh
\* hash: it has no field but the public ones, its refresh token is no
\* stored hash, and its error message is no password.
BodyIsPublic(out) ==
    /\ DOMAIN out.body \subseteq
          {"success", "token", "refreshToken", "user", "data", "error"}
    /\ "user" \in DOMAIN out.body =>
          DOMAIN out.body.user \subseteq {"id", "name", "email", "createdAt"}
    /\ "refreshToken" \in DOMAIN out.body =>
          \A u \in DOMAIN out.users :
              out.body.refreshToken /= out.users[u].refreshToken
    /\ "error" \in DOMAIN out.body =>
          out.body.error.message \notin Passwords

\* C24: the stored password of every user is the bcrypt hash of the
\* password it registered with, never the password itself, and no response
\* of register, login, refreshToken, getMe or logout carries a password, a
\* password hash or a stored refresh hash.
C24_NoPasswordStoredOrReturned ==
    /\ \A u \in DOMAIN users :
          \E salt \in Salts :
              users[u].password = BcryptHash(registry[users[u].email], salt)
    /\ \A out \in SessionOutcomes : BodyIsPublic(out)

\* A user is stored, and a getMe with the user's token answers with its
\* profile.
C24_Witness ==
    \E u \in DOMAIN users :
        /\ last.op = "getMe"
        /\ last.status = 200
        /\ last.user = u
        /\ users[u].password.digest = registry[users[u].email]

\* ----------------------------------------------- claims under SpecRegister

\* The user documents that have this email.
UsersWithEmail(email) == {u \in DOMAIN users : users[u].email = email}

\* C22: no two user documents share an email, for every interleaving of
\* register requests; of two answered requests with valid bodies and the
\* same email, not registered before them, exactly one responded 201 and
\* created the user, and the other failed and created none.
C22_UniqueEmailUnderConcurrency ==
    /\ \A u, v \in DOMAIN users :
          users[u].email = users[v].email => u = v
    /\ \A s1, s2 \in Slots :
          (/\ s1 /= s2
           /\ regs[s1].pc = "done" /\ regs[s2].pc = "done"
           /\ regs[s1].body.email = regs[s2].body.email
           /\ ValidRegisterBody(regs[s1].body)
           /\ ValidRegisterBody(regs[s2].body))
          => /\ {regs[s1].status, regs[s2].status} = {201, 400}
             /\ Cardinality(UsersWithEmail(regs[s1].body.email)) = 1

\* Two register requests with the same email both passed User.findOne
\* before either insert: one has answered 201, the other was refused by
\* the unique index.
C22_Witness ==
    \E s1, s2 \in Slots :
        /\ regs[s1].status = 201
        /\ regs[s2].status = 400
        /\ regs[s2].code = "DUPLICATE_VALUE"
        /\ regs[s1].body.email = regs[s2].body.email

\* ---------------------------------------------------- claims under SpecConc

\* C2: of two refreshToken requests that presented the same refresh token,
\* with their lookups and updates interleaved in any order, at most one is
\* answered 200 with a new token pair.
C2_AtMostOneConcurrentRefresh ==
    \A s1 \in Slots : \A s2 \in Slots \ {s1} :
        (/\ reqs[s1].pc = "done"
         /\ reqs[s2].pc = "done"
         /\ reqs[s1].token = reqs[s2].token
         /\ reqs[s1].token \in Issued)
        => ~(reqs[s1].status = 200 /\ reqs[s2].status = 200)

\* ---------------------------------------------------- claims under SpecAwait

\* The request in slot s is answered in this step with a token pair.
AnswersWithTokens(s) ==
    /\ reqs[s].pc /= "done"
    /\ reqs'[s].pc = "done"
    /\ reqs'[s].status \in {200, 201}

\* No other request is under way or answered, and the user of slot s has
\* not logged out: nothing but the request of slot s has written the
\* user's refresh state since it arrived.
Undisturbed(s) ==
    /\ \A o \in Slots \ {s} : reqs[o].pc = "idle"
    /\ reqs[s].user \notin loggedOut

\* C31: a success response of register, login or refreshToken that
\* carries a refresh token is sent only after the store has applied the
\* update that writes the token's hash to the user's record; so, with no
\* other request of that user in between, the record holds the hash when
\* the response is sent and a refreshToken call made then finds the user.
C31_ResponseAfterStore ==
    [][\A s \in Slots :
          /\ (reqs[s].pc = "saving" /\ reqs'[s].pc = "saved") =>
                users'[reqs[s].user].refreshToken = Sha256(reqs[s].rt)
          /\ AnswersWithTokens(s) =>
                /\ reqs[s].pc = "saved"
                /\ reqs'[s].rt /= NoToken
                /\ Undisturbed(s) =>
                      /\ users[reqs[s].user].refreshToken
                            = Sha256(reqs'[s].rt)
                      /\ FindByRefreshToken(users', Sha256(reqs'[s].rt),
                                            strictQuery) = reqs[s].user]_vars

\* C31's case: a register, a login and a refreshToken have been answered
\* with a token pair, each after its update was stored.
C31_Witness ==
    /\ \E s \in Slots :
          /\ reqs[s].pc = "done"
          /\ reqs[s].status = 200
          /\ reqs[s].token /= NoToken
          /\ users[reqs[s].user].refreshToken = Sha256(reqs[s].rt)
    /\ \E s \in Slots :
          /\ reqs[s].pc = "done"
          /\ reqs[s].status \in {200, 201}
          /\ reqs[s].token = NoToken

\* C32: when a logout of user u and refreshToken requests of u that ran
\* interleaved with it have all completed, the logout being the last
\* session operation served and no login or register of u among the
\* requests, the stored refresh hash of u is empty and no refresh token
\* returned for u is accepted.
C32_LogoutWinsOverRefresh ==
    \A u \in DOMAIN users :
        (/\ last.op = "logout"
         /\ last.status = 200
         /\ last.user = u
         /\ \A s \in Slots : reqs[s].pc \in {"idle", "done"}
         /\ \A s \in Slots :
               (reqs[s].pc = "done" /\ reqs[s].user = u) =>
                   reqs[s].token /= NoToken)
        => /\ users[u].refreshToken = NoToken
           /\ \A t \in Issued :
                 owner[t] = u => RefreshOutcome(t).status = 401

\* --------------------------------------------------- claims under SpecUpdate

\* C34: an updateTask answered 200 carries the updated task as its data,
\* never null, also when a deleteTask of the same task ran between its
\* ownership check and its write; and a task that was gone at the write is
\* not stored again.
C34_UpdateAnswersWithTask ==
    \A s \in Slots :
        (upds[s].pc = "done" /\ upds[s].status = 200) =>
            /\ upds[s].data = upds[s].id
            /\ upds[s].data = NoTask => upds[s].id \notin DOMAIN tasks

\* --------------------------------------------------- claims under SpecRotate

\* C33: a refreshToken answered 200 issues for the user the presented
\* token was returned for, whose stored hash is the token's: the new access
\* token carries that user's id, the response names that user, the refresh
\* hash of that user alone is overwritten, with the hash of the new refresh
\* token, and no other record changes.
C33_RefreshForOwnerOnly ==
    \A t \in PresentedTokens :
        LET out == RefreshTokenHandler(users, t, nextRefresh, strictQuery,
                                       isProd)
        IN  out.status = 200 =>
              /\ t \in Issued
              /\ users[owner[t]].refreshToken = Sha256(t)
              /\ out.body.token = Jwt(owner[t])
              /\ out.body.token.id = owner[t]
              /\ out.body.user = [id |-> owner[t],
                                  name |-> users[owner[t]].name,
                                  email |-> users[owner[t]].email]
              /\ out.users =
                    [users EXCEPT ![owner[t]].refreshToken =
                                      Sha256(out.body.refreshToken)]
              /\ \A v \in DOMAIN users \ {owner[t]} :
                    out.users[v] = users[v]

\* C33's case: with two users stored, the second has just been issued a
\* new pair by refreshToken and the first still holds a session.
C33_Witness ==
    /\ last.op = "refreshToken"
    /\ last.status = 200
    /\ Cardinality(DOMAIN users) = 2
    /\ latest[2] = nextRefresh - 1
    /\ users[2].refreshToken = Sha256(latest[2])
    /\ users[1].refreshToken /= NoToken

\* -------------------------------------------------- claims under SpecCookies

\* C29: the token cookie expires JWT_COOKIE_EXPIRE days after it is issued,
\* or 30 days after when the variable is not set; the refresh-token cookie
\* expires 7 days after it is issued; both expire later than the issuance.
C29_CookieExpiry ==
    cookies.set =>
        /\ cookies.token =
              cookies.now + (IF cookies.env = Unset THEN 30
                             ELSE ToNumber(cookies.env).val) * Day
        /\ cookies.refresh = cookies.now + 7 * Day
        /\ cookies.token > cookies.now
        /\ cookies.refresh > cookies.now

====
